---- MODULE Spec2Model ----
\* A model of the slurm dashboard "stop": the external data fetcher and the
\* aggregation functions of src/src/stop/slurm.py, and the screens, tables and
\* refresh callbacks of src/src/stop/tui.py.
EXTENDS Integers, Sequences, FiniteSets, TLC

VARIABLES
    payload,    \* aggregation: the decoded payload handed to the functions
    agg,        \* aggregation: the last call, [fn, ret]
    fcall,      \* fetcher: the last call of get_slurm_data / get_slurm_text_data
    app,        \* the application: "starting" or "running"
    escaped,    \* the exceptions that escaped a handler, as <<handler, exception>>
    tables,     \* the DataTable widgets: columns, rows, and the refresh that wrote the rows
    mount,      \* SlurmMonitorApp.on_mount: where it is (none, gather, raised, update_data)
    cycle,      \* the home timer's latest update_data: its number, where it is, its snapshot
    footer,     \* CustomFooter: the refresh whose completion set "Last updated" (0: never)
    stack,      \* the screen stack, the home screen first
    screens,    \* NodeScreen and PartitionScreen: cache, search input, refreshes in flight
    issued,     \* the external commands issued so far
    batches,    \* the number of fetches (the home view's: of gathers) started so far
    pages       \* ConfigScreen and the detail screen: what its Static shows, its fetch

aggVars == <<payload, agg>>
tuiVars == <<app, escaped, tables, mount, cycle, footer, stack, screens, issued, batches,
            pages>>
vars == <<payload, agg, fcall, app, escaped, tables, mount, cycle, footer, stack, screens,
          issued, batches, pages>>

\* ---------------------------------------------------------------- bounds
MaxJobs == 2
MaxRecords == 2
MaxNodes == 2
MaxBatches == 3
\* The screens on the stack, the home screen included.
MaxDepth == 3
\* Durations formatted: up to MaxDays days, given as fractions of denominator up to MaxDen.
MaxDays == 2
MaxDen == 2

\* ------------------------------------------------------- python values
\* Python's None, a dict (a function from its keys), a polars DataFrame (its
\* column names and its rows, each row the sequence of its cells).
None == [tag |-> "None"]
Dict(d) == [tag |-> "dict", d |-> d]
DataFrame(columns, rows) == [tag |-> "DataFrame", columns |-> columns, rows |-> rows]
IsNone(x) == x.tag = "None"
EmptyDict == Dict(<<>>)

\* bool(x) of a payload: None and the empty dict are false.
Truthy(x) == x.tag = "dict" /\ DOMAIN x.d # {}
\* key in x, for a dict x.
HasKey(x, key) == x.tag = "dict" /\ key \in DOMAIN x.d

\* A function's outcome: it returns a value or raises an exception.
Return(v) == [exc |-> "", value |-> v]
Raise(e) == [exc |-> e, value |-> None]
Raised(r) == r.exc # ""

\* ----------------------------------------------------------- sequences
RECURSIVE SumSeq(_)
SumSeq(s) == IF s = <<>> THEN 0 ELSE Head(s) + SumSeq(Tail(s))

Range(s) == {s[i] : i \in DOMAIN s}
Contains(list, x) == \E i \in DOMAIN list : list[i] = x
Perms(S) == {p \in [1..Cardinality(S) -> S] : \A i, j \in DOMAIN p : p[i] = p[j] => i = j}

RECURSIVE JoinStr(_, _)
\* sep.join(list) of a list of strings.
JoinStr(list, sep) ==
    IF list = <<>> THEN ""
    ELSE IF Len(list) = 1 THEN list[1]
    ELSE list[1] \o sep \o JoinStr(Tail(list), sep)

\* a < b for the names the model uses (string order of the sort on a name column).
NameRank(n) ==
    CASE n = "debug" -> 1 [] n = "normal" -> 2
      [] n = "node1" -> 1 [] n = "node10" -> 2 [] n = "node2" -> 3
      [] n = "node3" -> 4 [] n = "node4" -> 5 [] n = "node5" -> 6 [] OTHER -> 7

RECURSIVE InsertByName(_, _)
\* row inserted into s (rows sorted by their first cell, a name), after the rows
\* of a smaller or equal name.
InsertByName(row, s) ==
    IF s = <<>> THEN <<row>>
    ELSE IF NameRank(row[1]) < NameRank(Head(s)[1]) THEN <<row>> \o s
    ELSE <<Head(s)>> \o InsertByName(row, Tail(s))

RECURSIVE SortByName(_)
\* s sorted ascending by the name in the first cell of each row.
SortByName(s) ==
    IF s = <<>> THEN <<>> ELSE InsertByName(Head(s), SortByName(Tail(s)))

RECURSIVE InsertInt(_, _)
InsertInt(x, s) ==
    IF s = <<>> THEN <<x>>
    ELSE IF x < Head(s) THEN <<x>> \o s
    ELSE <<Head(s)>> \o InsertInt(x, Tail(s))

RECURSIVE SortInts(_)
\* the integers of s, ascending.
SortInts(s) == IF s = <<>> THEN <<>> ELSE InsertInt(Head(s), SortInts(Tail(s)))

\* order lists values of non-increasing Val: what sort(..., descending=True) leaves.
SortedDescending(order, Val(_)) ==
    \A i, j \in DOMAIN order : i < j => Val(order[i]) >= Val(order[j])

\* int(x) of the quotient n / d (d > 0): truncation towards zero.
Trunc(n, d) == IF n >= 0 THEN n \div d ELSE -((-n) \div d)

\* ------------------------------------------------------ the input records
\* Job records of squeue --json (account, user_name, job_state list, times).
Job(a, u, st, e, t) ==
    [account |-> a, user_name |-> u, job_state |-> st,
     eligible_time |-> [number |-> e], start_time |-> [number |-> t]]
Jobs ==
    { Job("acct1", "user1", <<"RUNNING">>, 100, 100),
      Job("acct1", "user1", <<"PENDING">>, 100, 500),
      Job("acct2", "user2", <<"PENDING">>, 100, 1500),
      Job("acct2", "user1", <<"PENDING">>, 100, 601),
      Job("acct1", "user2", <<"RUNNING", "COMPLETING">>, 100, 90161),
      Job("acct2", "user2", <<"PENDING">>, 0, 0) }

\* Partition-state records of sinfo --json.
PartitionRecord(n, nt, ni, na, ct, ci, ca) ==
    [partition |-> [name |-> n],
     nodes |-> [total |-> nt, idle |-> ni, allocated |-> na],
     cpus |-> [total |-> ct, idle |-> ci, allocated |-> ca]]
\* A record that also carries the fields availability and state.
WithAvailability(r, av, st) ==
    [partition |-> r.partition, nodes |-> r.nodes, cpus |-> r.cpus,
     availability |-> av, state |-> st]
PartitionRecords ==
    { PartitionRecord("debug", 1, 1, 0, 4, 4, 0),
      PartitionRecord("normal", 2, 1, 1, 8, 4, 4),
      PartitionRecord("normal", 1, 0, 1, 4, 0, 4),
      WithAvailability(PartitionRecord("debug", 2, 2, 0, 8, 8, 0), "up", "idle") }

\* Node records of scontrol show nodes --json.
Node(n, st, c, ac, m, am, ps, l) ==
    [name |-> n, state |-> st, cpus |-> c, alloc_cpus |-> ac, real_memory |-> m,
     alloc_memory |-> am, partitions |-> ps, cpu_load |-> l]
Nodes ==
    { Node("node1", <<"IDLE">>, 4, 0, 16000, 0, <<"debug">>, 0),
      Node("node10", <<"ALLOCATED">>, 8, 8, 32000, 16000, <<"normal">>, 800),
      Node("node2", <<"DRAINED", "DOWN">>, 4, 0, 16000, 0, <<"debug", "normal">>, 0),
      Node("node3", <<"RESERVATION", "MIXED">>, 8, 2, 32000, 8000, <<"normal">>, 150),
      Node("node4", <<"IDLE">>, 4, 1, 16000, 4000, <<"debug">>, 100),
      Node("node5", <<"MIXED", "DRAIN">>, 8, 8, 32000, 32000, <<"normal">>, 800) }

\* ------------------------------------------------ process_partition_summary
PartitionNames(df) == {df[i].partition.name : i \in DOMAIN df}
group_sum(df, name, part, field) ==
    SumSeq([i \in DOMAIN df |-> IF df[i].partition.name = name THEN df[i][part][field] ELSE 0])
partition_row(df, name) ==
    <<name, group_sum(df, name, "nodes", "total"), group_sum(df, name, "nodes", "idle"),
      group_sum(df, name, "nodes", "allocated"), group_sum(df, name, "cpus", "total"),
      group_sum(df, name, "cpus", "idle"), group_sum(df, name, "cpus", "allocated")>>
PartitionSummaryColumns ==
    <<"Partition", "Total Nodes", "Idle Nodes", "Allocated Nodes", "Total CPUs",
      "Free CPUs", "Allocated CPUs">>

\* The orders group_by (unordered) followed by sort("Total Nodes", descending)
\* can leave the groups in: rows of equal Total Nodes come in any order.
PartitionSummaryOrders(sinfo_data) ==
    IF HasKey(sinfo_data, "sinfo") /\ sinfo_data.d.sinfo # <<>>
    THEN LET df == sinfo_data.d.sinfo
             Total(n) == group_sum(df, n, "nodes", "total")
         IN  {p \in Perms(PartitionNames(df)) : SortedDescending(p, Total)}
    ELSE {<<>>}

process_partition_summary(sinfo_data, order) ==
    IF ~Truthy(sinfo_data) THEN Return(None)
    ELSE IF ~HasKey(sinfo_data, "sinfo") THEN Raise("KeyError")
    ELSE IF sinfo_data.d.sinfo = <<>> THEN Raise("ColumnNotFoundError")
    ELSE LET df == sinfo_data.d.sinfo
         IN  Return(DataFrame(PartitionSummaryColumns,
                              [r \in DOMAIN order |-> partition_row(df, order[r])]))

\* ---------------------------------------------------- process_job_summaries
RECURSIVE explode(_)
\* explode("job_state"): one row per job and state of its job_state list.
explode(jobs) ==
    IF jobs = <<>> THEN <<>>
    ELSE LET j == Head(jobs)
         IN  [i \in DOMAIN j.job_state |->
                 [account |-> j.account, user_name |-> j.user_name,
                  job_state |-> j.job_state[i]]] \o explode(Tail(jobs))

\* The cell of a pivot over the exploded rows themselves, a 1 for each: the
\* first of a group's ones, and 0 for a missing cell.
state_count_first(df, key, k, s) ==
    IF \E i \in DOMAIN df : df[i][key] = k /\ df[i].job_state = s THEN 1 ELSE 0

\* group_by([key, "job_state"]).agg(len) and group_by(key).agg(len) of the exploded rows.
state_count(df, key, k, s) ==
    Cardinality({i \in DOMAIN df : df[i][key] = k /\ df[i].job_state = s})
group_len(df, key, k) == Cardinality({i \in DOMAIN df : df[i][key] = k})

EmptyJobSummary(key) ==
    DataFrame(<<key, "Total Jobs", "RUNNING", "PENDING", "COMPLETED">>, <<>>)

\* The pivot of one grouping key: key, Total Jobs, then one column per state in
\* pivot order cols; rows in the order rows.
job_summary(df, key, cols, rows) ==
    DataFrame(<<key, "Total Jobs">> \o cols,
              [r \in DOMAIN rows |->
                  <<rows[r], group_len(df, key, rows[r])>> \o
                  [c \in DOMAIN cols |-> state_count(df, key, rows[r], cols[c])]])

NoJobs(squeue_data) ==
    ~Truthy(squeue_data) \/ ~HasKey(squeue_data, "jobs") \/ squeue_data.d.jobs = <<>>

\* The orders the unordered group_by leaves to the pivot (its columns come in
\* order of first appearance) and the sort on Total Jobs leaves to equal rows.
JobSummaryOrders(squeue_data) ==
    IF NoJobs(squeue_data)
    THEN {[acols |-> <<>>, arows |-> <<>>, ucols |-> <<>>, urows |-> <<>>]}
    ELSE LET df == explode(squeue_data.d.jobs)
             States == {df[i].job_state : i \in DOMAIN df}
             ATotal(k) == group_len(df, "account", k)
             UTotal(k) == group_len(df, "user_name", k)
         IN  {[acols |-> ac, arows |-> ar, ucols |-> uc, urows |-> ur] :
                 ac \in Perms(States), uc \in Perms(States),
                 ar \in {p \in Perms({df[i].account : i \in DOMAIN df}) :
                            SortedDescending(p, ATotal)},
                 ur \in {p \in Perms({df[i].user_name : i \in DOMAIN df}) :
                            SortedDescending(p, UTotal)}}

\* process_job_summaries whose early return builds its tables without the
\* declared schema: the columns an empty pivot has.
process_job_summaries_undeclared(squeue_data, o) ==
    IF NoJobs(squeue_data)
    THEN Return(<<job_summary(<<>>, "account", <<>>, <<>>),
                  job_summary(<<>>, "user_name", <<>>, <<>>)>>)
    ELSE LET df == explode(squeue_data.d.jobs)
         IN  Return(<<job_summary(df, "account", o.acols, o.arows),
                      job_summary(df, "user_name", o.ucols, o.urows)>>)

\* Returns the pair <<account_summary_df, user_summary_df>>.
process_job_summaries(squeue_data, o) ==
    IF NoJobs(squeue_data)
    THEN Return(<<EmptyJobSummary("account"), EmptyJobSummary("user_name")>>)
    ELSE LET df == explode(squeue_data.d.jobs)
         IN  Return(<<job_summary(df, "account", o.acols, o.arows),
                      job_summary(df, "user_name", o.ucols, o.urows)>>)

\* ----------------------------------------------------- process_node_summary
broken_states ==
    {"DRAINED", "DRAINING", "DRAIN", "DOWN", "FAIL", "NO_RESPOND", "POWER_DOWN",
     "POWER_UP", "RESUME", "UNKNOWN"}
NodeSummaryMetrics ==
    <<"Total Nodes", "Total CPUs", "Total Memory (MB)", "Allocated CPUs",
      "Allocated Memory (MB)", "Broken Nodes", "Nodes in Reservation", "Mixed Nodes">>
column_sum(df, field) == SumSeq([i \in DOMAIN df |-> df[i][field]])
\* A count that takes a node once for each broken state it holds.
broken_nodes_per_state(df) ==
    SumSeq([i \in DOMAIN df |->
               Cardinality({k \in DOMAIN df[i].state : df[i].state[k] \in broken_states})])
broken_nodes(df) ==
    Cardinality({i \in DOMAIN df : \E s \in broken_states : Contains(df[i].state, s)})
reservation_nodes(df) ==
    Cardinality({i \in DOMAIN df : Contains(df[i].state, "RESERVATION")})
\* A count of the nodes that report the state MIXED.
mixed_nodes_by_state(df) ==
    Cardinality({i \in DOMAIN df : Contains(df[i].state, "MIXED")})
mixed_nodes(df) ==
    Cardinality({i \in DOMAIN df : df[i].alloc_cpus > 0 /\ df[i].alloc_cpus < df[i].cpus})

process_node_summary(scontrol_data) ==
    IF ~Truthy(scontrol_data) \/ ~HasKey(scontrol_data, "nodes") THEN Return(None)
    ELSE IF scontrol_data.d.nodes = <<>> THEN Raise("ColumnNotFoundError")
    ELSE LET df == scontrol_data.d.nodes
             Value == <<Len(df), column_sum(df, "cpus"), column_sum(df, "real_memory"),
                        column_sum(df, "alloc_cpus"), column_sum(df, "alloc_memory"),
                        broken_nodes(df), reservation_nodes(df), mixed_nodes(df)>>
         IN  Return(DataFrame(<<"Metric", "Value">>,
                              [i \in DOMAIN NodeSummaryMetrics |->
                                  <<NodeSummaryMetrics[i], Value[i]>>]))

\* -------------------------------------------------------- process_node_list
NodeListColumns ==
    <<"Node Name", "State", "Total Cores", "Allocated Cores", "Total Memory (MB)",
      "Allocated Memory (MB)", "Free Memory (MB)", "Partitions", "CPU Load">>
node_list_row(n) ==
    <<n.name, JoinStr(n.state, ", "), n.cpus, n.alloc_cpus, n.real_memory,
      n.alloc_memory, n.real_memory - n.alloc_memory, JoinStr(n.partitions, ", "),
      n.cpu_load>>

process_node_list(scontrol_data) ==
    IF ~Truthy(scontrol_data) \/ ~HasKey(scontrol_data, "nodes") THEN Return(None)
    ELSE IF scontrol_data.d.nodes = <<>> THEN Raise("ColumnNotFoundError")
    ELSE LET df == scontrol_data.d.nodes
         IN  Return(DataFrame(NodeListColumns,
                              SortByName([i \in DOMAIN df |-> node_list_row(df[i])])))

\* --------------------------------------------------- process_partition_list
PartitionListColumns ==
    <<"Partition Name", "Total Nodes", "Idle Nodes", "Allocated Nodes", "Total CPUs",
      "Free CPUs", "Allocated CPUs">>
\* A column of the frame built from the records: a key of its records.
HasColumn(df, name) == \E i \in DOMAIN df : name \in DOMAIN df[i]

process_partition_list(sinfo_data) ==
    IF ~Truthy(sinfo_data) \/ ~HasKey(sinfo_data, "sinfo") THEN Return(None)
    ELSE IF sinfo_data.d.sinfo = <<>> THEN Raise("ColumnNotFoundError")
    ELSE LET df == sinfo_data.d.sinfo
             names == CHOOSE p \in Perms(PartitionNames(df)) :
                         \A i, j \in DOMAIN p : i < j => NameRank(p[i]) < NameRank(p[j])
         IN  IF HasColumn(df, "availability") \/ HasColumn(df, "state")
             THEN Raise("TypeError")
             ELSE Return(DataFrame(PartitionListColumns,
                                   [r \in DOMAIN names |-> partition_row(df, names[r])]))

\* ----------------------------------------- format_seconds_to_human_readable
\* A formatter that takes the hours of the whole duration, not of the last day.
format_seconds_hours_of_total(seconds) ==
    IF IsNone(seconds) THEN "N/A"
    ELSE LET total == Trunc(seconds.num, seconds.den)
         IN  ToString(total \div (24 * 3600)) \o "d " \o ToString(total \div 3600) \o "h "
                 \o ToString((total % 3600) \div 60) \o "m " \o ToString(total % 60) \o "s"

\* seconds is None or a number given as the fraction num / den (den > 0).
format_seconds_to_human_readable(seconds) ==
    IF IsNone(seconds) THEN "N/A"
    ELSE LET total == Trunc(seconds.num, seconds.den)
             days == total \div (24 * 3600)
             s1 == total % (24 * 3600)
             hours == s1 \div 3600
             s2 == s1 % 3600
             minutes == s2 \div 60
             s3 == s2 % 60
         IN  ToString(days) \o "d " \o ToString(hours) \o "h " \o ToString(minutes)
                 \o "m " \o ToString(s3) \o "s"

Number(num, den) == [tag |-> "float", num |-> num, den |-> den]

\* -------------------------------- process_pending_job_waiting_times_summary
WaitingTimeMetrics == <<"Max Waiting Time", "Median Waiting Time", "Mean Waiting Time">>
ZeroWaitingTimes ==
    DataFrame(<<"Metric", "Value">>,
              [i \in DOMAIN WaitingTimeMetrics |-> <<WaitingTimeMetrics[i], "0d 0h 0m 0s">>])

RECURSIVE waiting_times_any_state(_)
\* The waiting times of a filter that does not look at job_state.
waiting_times_any_state(jobs) ==
    IF jobs = <<>> THEN <<>>
    ELSE LET j == Head(jobs)
         IN  (IF j.eligible_time.number # 0 /\ j.start_time.number # 0
                 THEN <<j.start_time.number - j.eligible_time.number>> ELSE <<>>)
             \o waiting_times_any_state(Tail(jobs))

RECURSIVE waiting_times(_)
\* waiting_time_seconds of the jobs the filter keeps, in job order.
waiting_times(jobs) ==
    IF jobs = <<>> THEN <<>>
    ELSE LET j == Head(jobs)
         IN  (IF Contains(j.job_state, "PENDING") /\ j.eligible_time.number # 0
                    /\ j.start_time.number # 0
                 THEN <<j.start_time.number - j.eligible_time.number>> ELSE <<>>)
             \o waiting_times(Tail(jobs))

max_of(w) == CHOOSE x \in Range(w) : \A y \in Range(w) : y <= x
\* A median that takes the lower of the two middle values of an even count.
median_of_lower(w) ==
    LET s == SortInts(w)
    IN  Number(s[(Len(s) + 1) \div 2], 1)

\* median as a fraction: the middle value, or the mean of the two middle values.
median_of(w) ==
    LET s == SortInts(w)
        n == Len(s)
    IN  IF n % 2 = 1 THEN Number(s[(n + 1) \div 2], 1)
        ELSE Number(s[n \div 2] + s[n \div 2 + 1], 2)
mean_of(w) == Number(SumSeq(w), Len(w))

process_pending_job_waiting_times_summary(squeue_data) ==
    IF NoJobs(squeue_data) THEN Return(ZeroWaitingTimes)
    ELSE LET w == waiting_times(squeue_data.d.jobs)
         IN  IF w = <<>> THEN Return(ZeroWaitingTimes)
             ELSE LET Value == <<Number(max_of(w), 1), median_of(w), mean_of(w)>>
                  IN  Return(DataFrame(<<"Metric", "Value">>,
                          [i \in DOMAIN WaitingTimeMetrics |->
                              <<WaitingTimeMetrics[i],
                                format_seconds_to_human_readable(Value[i])>>]))

\* ------------------------------------------------- the external data fetcher
Str(text) == [tag |-> "str", s |-> text]

\* What the operating system gives one run of a command: whether the subprocess
\* could be created, its exit code and the bytes it wrote. Bytes are given by
\* whether they decode as UTF-8, whether white space surrounds the text, and the text.
Bytes(utf8, pad, body) == [utf8 |-> utf8, pad |-> pad, body |-> body]
SpawnOutcomes == {"ok", "FileNotFoundError", "OSError"}
ReturnCodes == {0, 1, 127}
\* A text is the JSON serialisation of a document, or some other text.
Json(doc) == [kind |-> "json", doc |-> doc]
Text(t) == [kind |-> "text", t |-> t]
StdoutTexts ==
    {Json(EmptyDict), Json(Dict([jobs |-> <<>>])), Json(None), Text("invalid json"), Text("")}
\* "command not found" is what the shell writes for a program it does not find.
StderrTexts == {Text(""), Text("Slurm error message"), Text("command not found")}
Environments ==
    [spawn : SpawnOutcomes, returncode : ReturnCodes,
     stdout : {Bytes(u, w, b) : u \in BOOLEAN, w \in BOOLEAN, b \in StdoutTexts},
     stderr : {Bytes(TRUE, w, b) : w \in BOOLEAN, b \in StderrTexts}]

\* The commands the program issues, as their words.
NodeNames == {"node1", "node2"}
Commands ==
    { <<"sinfo", "--json">>, <<"squeue", "--json">>,
      <<"scontrol", "show", "nodes", "--json">>, <<"scontrol", "show", "config">> }
    \cup {<<"scontrol", "show", "node", n, "--json">> : n \in NodeNames}
    \cup {<<"scontrol", "show", "partition", n, "--json">> : n \in {"debug"}}

\* bytes.decode().strip(): the text without the surrounding white space.
decode_strip(bytes) ==
    IF bytes.utf8 THEN Return(Str(bytes.body)) ELSE Raise("UnicodeDecodeError")

\* json.loads(text)
json_loads(text) ==
    IF text.kind = "json" THEN Return(text.doc) ELSE Raise("JSONDecodeError")

\* A fetch's outcome: what it returns or raises, and the diagnostics it printed.
Fetched(r, log) == [exc |-> r.exc, value |-> r.value, log |-> log]

get_slurm_data_unchecked(command, env) ==
    IF env.spawn = "FileNotFoundError"
    THEN IF command = <<>> THEN Fetched(Raise("IndexError"), <<>>)
         ELSE Fetched(Return(None), <<<<"not found", Head(command)>>>>)
    ELSE IF env.spawn # "ok"
    THEN Fetched(Return(None), <<<<"unexpected error", command, env.spawn>>>>)
    ELSE LET text == decode_strip(env.stdout)
         IN  IF Raised(text)
             THEN Fetched(Return(None), <<<<"unexpected error", command, text.exc>>>>)
             ELSE LET doc == json_loads(text.value.s)
                  IN  IF Raised(doc)
                      THEN Fetched(Return(None), <<<<"could not decode JSON", command>>>>)
                      ELSE Fetched(doc, <<>>)

get_slurm_data(command, env) ==
    IF env.spawn = "FileNotFoundError"
    THEN IF command = <<>> THEN Fetched(Raise("IndexError"), <<>>)
         ELSE Fetched(Return(None), <<<<"not found", Head(command)>>>>)
    ELSE IF env.spawn # "ok"
    THEN Fetched(Return(None), <<<<"unexpected error", command, env.spawn>>>>)
    ELSE IF env.returncode # 0
    THEN LET err == decode_strip(env.stderr)
         IN  IF Raised(err)
             THEN Fetched(Return(None), <<<<"unexpected error", command, err.exc>>>>)
             ELSE Fetched(Return(None), <<<<"error running", command, err.value.s>>>>)
    ELSE LET text == decode_strip(env.stdout)
         IN  IF Raised(text)
             THEN Fetched(Return(None), <<<<"unexpected error", command, text.exc>>>>)
             ELSE LET doc == json_loads(text.value.s)
                  IN  IF Raised(doc)
                      THEN Fetched(Return(None), <<<<"could not decode JSON", command>>>>)
                      ELSE Fetched(doc, <<>>)

get_slurm_text_data(command, env) ==
    IF env.spawn = "FileNotFoundError"
    THEN IF command = <<>> THEN Fetched(Raise("IndexError"), <<>>)
         ELSE Fetched(Return(None), <<<<"not found", Head(command)>>>>)
    ELSE IF env.spawn # "ok"
    THEN Fetched(Return(None), <<<<"unexpected error", command, env.spawn>>>>)
    ELSE IF env.returncode # 0
    THEN LET err == decode_strip(env.stderr)
         IN  IF Raised(err)
             THEN Fetched(Return(None), <<<<"unexpected error", command, err.exc>>>>)
             ELSE Fetched(Return(None), <<<<"error running", command, err.value.s>>>>)
    ELSE LET text == decode_strip(env.stdout)
         IN  IF Raised(text)
             THEN Fetched(Return(None), <<<<"unexpected error", command, text.exc>>>>)
             ELSE Fetched(text, <<>>)

\* --------------------------------------------------------- get_all_slurm_data
Sources == {"sinfo", "squeue", "scontrol"}
CommandOf(source) ==
    CASE source = "sinfo" -> <<"sinfo", "--json">>
      [] source = "squeue" -> <<"squeue", "--json">>
      [] OTHER -> <<"scontrol", "show", "nodes", "--json">>

\* The snapshot of the three gathered fetches; envs gives each command's run.
get_all_slurm_data(envs) ==
    [sinfo |-> get_slurm_data(CommandOf("sinfo"), envs["sinfo"]).value,
     squeue |-> get_slurm_data(CommandOf("squeue"), envs["squeue"]).value,
     scontrol |-> get_slurm_data(CommandOf("scontrol"), envs["scontrol"]).value]

\* The runs of the scheduler's commands the dashboard is checked with: a failing
\* run, and successful runs printing one of a few documents.
FailedRun == [spawn |-> "ok", returncode |-> 1, stdout |-> Bytes(TRUE, FALSE, Text("")),
              stderr |-> Bytes(TRUE, FALSE, Text("Slurm error message"))]
Prints(doc) == [spawn |-> "ok", returncode |-> 0, stdout |-> Bytes(TRUE, TRUE, Json(doc)),
                stderr |-> Bytes(TRUE, FALSE, Text(""))]
SinfoDocs ==
    { Dict([sinfo |-> <<PartitionRecord("debug", 1, 1, 0, 4, 4, 0),
                        PartitionRecord("normal", 2, 1, 1, 8, 4, 4)>>]),
      Dict([errors |-> <<"Unable to contact slurm controller">>]) }
SqueueDocs ==
    { Dict([jobs |-> <<>>]),
      Dict([jobs |-> <<Job("acct1", "user1", <<"RUNNING">>, 100, 200)>>]) }
ScontrolDocs ==
    { Dict([nodes |-> <<Node("node10", <<"MIXED">>, 8, 2, 32000, 8000, <<"normal">>, 150),
                        Node("node1", <<"DOWN">>, 4, 0, 16000, 0, <<"debug">>, 0)>>]) }
DocsOf(source) ==
    CASE source = "sinfo" -> SinfoDocs [] source = "squeue" -> SqueueDocs
      [] OTHER -> ScontrolDocs
Runs(source) == {FailedRun} \cup {Prints(doc) : doc \in DocsOf(source)}
HomeRuns == [sinfo : Runs("sinfo"), squeue : Runs("squeue"), scontrol : Runs("scontrol")]

\* ------------------------------------------------------------------ DataTable
HomeTables ==
    {"partition_summary_table", "node_summary_table", "job_summary_table",
     "pending_job_wait_time_stats_table", "user_job_summary_table",
     "account_job_summary_table"}
ListTables == {"node_list_table", "partition_list_table"}
TableIds == HomeTables \cup ListTables
NewTable == [columns |-> <<>>, rows |-> <<>>, cycle |-> 0]

\* table.add_columns(*columns)
add_columns(tbl, id, columns) == [tbl EXCEPT ![id].columns = @ \o columns]
\* table.clear() followed by table.add_rows(rows), in refresh number n.
replace_rows(tbl, id, rows, n) == [tbl EXCEPT ![id].rows = rows, ![id].cycle = n]

\* ------------------------------------------------- SlurmMonitorApp (home view)
JobSummaryColumns(key) ==
    <<key, "Total Jobs", "RUNNING", "PENDING", "COMPLETED", "CANCELLED", "FAILED",
      "TIMEOUT", "NODE_FAIL", "PREEMPTED", "SUSPENDED">>

\* df.select(pl.sum(name)).item() if name in df.columns else 0
sum_if_column(df, name) ==
    IF Contains(df.columns, name)
    THEN LET c == CHOOSE i \in DOMAIN df.columns : df.columns[i] = name
         IN  SumSeq([r \in DOMAIN df.rows |-> df.rows[r][c]])
    ELSE 0

\* process_pending_job_wait_time_stats(squeue_data, all_data["current_time"]):
\* the snapshot has no such key, and slurm.py defines no function of that name.
pending_job_wait_time_stats(all_data) ==
    IF "current_time" \notin DOMAIN all_data THEN Raise("KeyError")
    ELSE Raise("NameError")

\* What a handler leaves: the tables, the footer and the exception that escaped it.
Left(tbl, foot, exc) == [tables |-> tbl, footer |-> foot, exc |-> exc]

\* SlurmMonitorApp.on_mount from the gathered snapshot on; the last step of a
\* run without exception is the call of update_data, which the caller starts.
on_mount(tbl, foot, all_data, orders) ==
    LET partition_summary == process_partition_summary(all_data.sinfo, orders.p)
        node_summary == process_node_summary(all_data.scontrol)
        t1 == IF IsNone(partition_summary.value) THEN tbl
              ELSE add_columns(tbl, "partition_summary_table", partition_summary.value.columns)
        t2 == IF IsNone(node_summary.value) THEN t1
              ELSE add_columns(t1, "node_summary_table", node_summary.value.columns)
        t3 == add_columns(t2, "job_summary_table", <<"Job Summary", "Value">>)
        wait == pending_job_wait_time_stats(all_data)
        t4 == IF IsNone(wait.value) THEN t3
              ELSE add_columns(t3, "pending_job_wait_time_stats_table", wait.value.columns)
        summaries == process_job_summaries(all_data.squeue, orders.j)
        t5 == add_columns(t4, "account_job_summary_table", JobSummaryColumns("account"))
        t6 == add_columns(t5, "user_job_summary_table", JobSummaryColumns("user_name"))
    IN  IF Raised(partition_summary) THEN Left(tbl, foot, partition_summary.exc)
        ELSE IF Raised(node_summary) THEN Left(t1, foot, node_summary.exc)
        ELSE IF Raised(wait) THEN Left(t3, foot, wait.exc)
        ELSE IF Raised(summaries) THEN Left(t4, foot, summaries.exc)
        ELSE Left(t6, foot, "")

\* SlurmMonitorApp.update_data from the gathered snapshot on, as refresh number n.
update_data(tbl, foot, all_data, orders, n) ==
    LET partition_summary == process_partition_summary(all_data.sinfo, orders.p)
        node_summary == process_node_summary(all_data.scontrol)
        t1 == IF IsNone(partition_summary.value) THEN tbl
              ELSE replace_rows(tbl, "partition_summary_table", partition_summary.value.rows, n)
        t2 == IF IsNone(node_summary.value) THEN t1
              ELSE replace_rows(t1, "node_summary_table", node_summary.value.rows, n)
        summaries == process_job_summaries(all_data.squeue, orders.j)
        account_summary == summaries.value[1]
        user_summary == summaries.value[2]
        t3 == replace_rows(t2, "job_summary_table",
                  << <<"Running Jobs", sum_if_column(account_summary, "RUNNING")>>,
                     <<"Pending Jobs", sum_if_column(account_summary, "PENDING")>> >>, n)
        wait == pending_job_wait_time_stats(all_data)
        t4 == IF IsNone(wait.value) THEN t3
              ELSE replace_rows(t3, "pending_job_wait_time_stats_table", wait.value.rows, n)
        t5 == replace_rows(t4, "user_job_summary_table", user_summary.rows, n)
        t6 == replace_rows(t5, "account_job_summary_table", account_summary.rows, n)
    IN  IF Raised(partition_summary) THEN Left(tbl, foot, partition_summary.exc)
        ELSE IF Raised(node_summary) THEN Left(t1, foot, node_summary.exc)
        ELSE IF Raised(summaries) THEN Left(t2, foot, summaries.exc)
        ELSE IF Raised(wait) THEN Left(t3, foot, wait.exc)
        ELSE Left(t6, n, "")

\* The orders the home view's aggregations may come in, for a snapshot.
HomeOrders(all_data) ==
    {[p |-> po, j |-> jo] : po \in PartitionSummaryOrders(all_data.sinfo),
                            jo \in JobSummaryOrders(all_data.squeue)}

\* ------------------------------------------- NodeScreen and PartitionScreen
\* The characters of the names and search texts the model uses.
Chars(s) ==
    CASE s = "" -> <<>>
      [] s = "node1" -> <<"n", "o", "d", "e", "1">>
      [] s = "node10" -> <<"n", "o", "d", "e", "1", "0">>
      [] s = "node2" -> <<"n", "o", "d", "e", "2">>
      [] s = "node3" -> <<"n", "o", "d", "e", "3">>
      [] s = "debug" -> <<"d", "e", "b", "u", "g">>
      [] s = "normal" -> <<"n", "o", "r", "m", "a", "l">>
      [] s = "eb" -> <<"e", "b">>
      [] OTHER -> <<s>>
SearchText(k) == IF k = "nodes" THEN "node10" ELSE "eb"

\* A match that takes the names which start with term.
str_startswith(name, term) ==
    LET n == Chars(name)
        t == Chars(term)
    IN  Len(t) <= Len(n) /\ \A i \in DOMAIN t : n[i] = t[i]

\* str.contains(term, literal=True): term occurs in name as a substring.
str_contains(name, term) ==
    LET n == Chars(name)
        t == Chars(term)
    IN  \E k \in 0..(Len(n) - Len(t)) : \A i \in DOMAIN t : n[k + i] = t[i]

RECURSIVE filter_rows(_, _, _)
\* The rows whose cell c contains term, in their order.
filter_rows(rows, c, term) ==
    IF rows = <<>> THEN <<>>
    ELSE (IF str_contains(Head(rows)[c], term) THEN <<Head(rows)>> ELSE <<>>)
         \o filter_rows(Tail(rows), c, term)

\* filter_nodes / filter_partitions without the test of table.columns: the
\* columns are added at every call.
filter_list_unguarded(tbl, id, list, name_column, search_term) ==
    IF IsNone(list) THEN tbl
    ELSE LET t1 == add_columns(tbl, id, list.columns)
             c == CHOOSE i \in DOMAIN list.columns : list.columns[i] = name_column
             filtered_list == IF search_term # "" THEN filter_rows(list.rows, c, search_term)
                              ELSE list.rows
         IN  replace_rows(t1, id, filtered_list, tbl[id].cycle)

\* filter_nodes / filter_partitions: the table id shown from the cached list.
filter_list(tbl, id, list, name_column, search_term) ==
    IF IsNone(list) THEN tbl
    ELSE LET t1 == IF tbl[id].columns = <<>> THEN add_columns(tbl, id, list.columns) ELSE tbl
             c == CHOOSE i \in DOMAIN list.columns : list.columns[i] = name_column
             filtered_list == IF search_term # "" THEN filter_rows(list.rows, c, search_term)
                              ELSE list.rows
         IN  replace_rows(t1, id, filtered_list, tbl[id].cycle)

filter_nodes(tbl, node_list, search_term) ==
    filter_list(tbl, "node_list_table", node_list, "Node Name", search_term)
filter_partitions(tbl, partition_list, search_term) ==
    filter_list(tbl, "partition_list_table", partition_list, "Partition Name", search_term)

ListScreens == {"nodes", "partitions"}
\* The table a list screen shows.
TableOfScreen(k) == IF k = "nodes" THEN "node_list_table" ELSE "partition_list_table"
SourceOf(k) == IF k = "nodes" THEN "scontrol" ELSE "sinfo"
\* fetched: whether the last refresh that ended got a payload ("dict") or None.
NewScreen == [mounted |-> FALSE, list |-> None, value |-> "", display |-> TRUE,
              inflight |-> {}, fetched |-> "None"]

\* What update_nodes / update_partitions leaves: the cache, the tables, the exception.
Refreshed(list, tbl, exc) == [list |-> list, tables |-> tbl, exc |-> exc]

\* NodeScreen.update_nodes from the fetched payload on.
update_nodes(tbl, scr, env) ==
    LET scontrol_data == get_slurm_data(CommandOf("scontrol"), env).value
        node_list == process_node_list(scontrol_data)
        t1 == filter_nodes(tbl, node_list.value, scr.value)
    IN  IF Raised(node_list) THEN Refreshed(scr.list, tbl, node_list.exc)
        ELSE Refreshed(node_list.value, t1, "")

\* PartitionScreen.update_partitions from the fetched payload on.
update_partitions(tbl, scr, env) ==
    LET sinfo_data == get_slurm_data(CommandOf("sinfo"), env).value
        partition_list == process_partition_list(sinfo_data)
        t1 == filter_partitions(tbl, partition_list.value, scr.value)
    IN  IF Raised(partition_list) THEN Refreshed(scr.list, tbl, partition_list.exc)
        ELSE Refreshed(partition_list.value, t1, "")

\* ------------------------------------------------------------ the dashboard
\* A handler takes one step up to its await (its fetches are started) and one
\* when the fetches have completed, from where it runs to its end.
NoCall == [fn |-> "", ret |-> Return(None)]
Running == app = "running"
Top == stack[Len(stack)]
Escape(handler, exc) == IF exc = "" THEN escaped ELSE escaped \cup {<<handler, exc>>}
NoSnapshot == [sinfo |-> None, squeue |-> None, scontrol |-> None]
\* No ConfigScreen mounted, no detail screen pushed.
NoDetail == [kind |-> "", name |-> "", pc |-> "none"]
NoPages == [config |-> "none", detail |-> NoDetail]
\* The screens of SCREENS, made and mounted at their first push, and the detail
\* screens, made anew by each row selection.
NamedScreens == {"about", "help", "config"}
DetailScreens == {"node_detail", "partition_detail"}
DetailOf(k) == IF k = "nodes" THEN "node_detail" ELSE "partition_detail"
\* f"scontrol show node {self.node_name} --json" and its partition counterpart.
DetailCommand(kind, name) ==
    <<"scontrol", "show", IF kind = "node_detail" THEN "node" ELSE "partition", name, "--json">>
ConfigCommand == <<"scontrol", "show", "config">>
\* The runs of the commands of the config and detail screens.
PrintsText(t) == [spawn |-> "ok", returncode |-> 0, stdout |-> Bytes(TRUE, TRUE, Text(t)),
                  stderr |-> Bytes(TRUE, FALSE, Text(""))]
ConfigRuns == {FailedRun, PrintsText("Configuration data"), PrintsText("")}
DetailRuns == {FailedRun, Prints(EmptyDict), Prints(Dict([nodes |-> <<>>]))}
\* `if data:` of a fetched text or document.
HasData(v) == IF v.tag = "str" THEN v.s # Text("") ELSE Truthy(v)

InitTui ==
    /\ app = "starting" /\ escaped = {} /\ stack = <<"home">>
    /\ tables = [id \in TableIds |-> NewTable]
    /\ mount = [pc |-> "none"]
    /\ cycle = [n |-> 0, pc |-> "none", all_data |-> NoSnapshot]
    /\ footer = 0 /\ issued = {} /\ batches = 0
    /\ screens = [k \in ListScreens |-> NewScreen]
    /\ pages = NoPages

\* SlurmMonitorApp.on_mount up to its first await: the screens are installed,
\* the timer is set and the three fetches are started.
on_mount_start ==
    /\ app = "starting"
    /\ app' = "running"
    /\ mount' = [pc |-> "gather"]
    /\ issued' = issued \cup {CommandOf(src) : src \in Sources}
    /\ batches' = batches + 1
    /\ UNCHANGED <<aggVars, fcall, pages, escaped, tables, cycle, footer, stack, screens>>

\* The gather of on_mount completes: on_mount resumes with the snapshot and
\* runs to its end. Its last line, the await of update_data, is reached when
\* nothing before it raised.
on_mount_resume ==
    /\ Running /\ mount.pc = "gather"
    /\ \E envs \in HomeRuns :
         LET all_data == get_all_slurm_data(envs)
         IN  \E orders \in HomeOrders(all_data) :
               LET left == on_mount(tables, footer, all_data, orders)
               IN  /\ tables' = left.tables
                   /\ escaped' = Escape("on_mount", left.exc)
                   /\ mount' = [pc |-> IF left.exc = "" THEN "update_data" ELSE "raised"]
    /\ UNCHANGED <<aggVars, fcall, pages, app, cycle, footer, stack, screens, issued, batches>>

\* The home timer fires: update_data starts its three fetches, as refresh
\* number batches + 1. The timer waits for its callback before it fires again.
update_data_start ==
    /\ Running /\ mount.pc # "none" /\ cycle.pc # "gather" /\ batches < MaxBatches
    /\ cycle' = [n |-> batches + 1, pc |-> "gather", all_data |-> NoSnapshot]
    /\ issued' = issued \cup {CommandOf(src) : src \in Sources}
    /\ batches' = batches + 1
    /\ UNCHANGED <<aggVars, fcall, pages, app, escaped, tables, mount, footer, stack, screens>>

\* The gather of update_data completes: update_data resumes with the snapshot
\* and runs to its end.
update_data_resume ==
    /\ Running /\ cycle.pc = "gather"
    /\ \E envs \in HomeRuns :
         LET all_data == get_all_slurm_data(envs)
         IN  \E orders \in HomeOrders(all_data) :
               LET left == update_data(tables, footer, all_data, orders, cycle.n)
               IN  /\ tables' = left.tables
                   /\ footer' = left.footer
                   /\ escaped' = Escape("update_data", left.exc)
                   /\ cycle' = [cycle EXCEPT !.pc = IF left.exc = "" THEN "done" ELSE "raised",
                                             !.all_data = all_data]
    /\ UNCHANGED <<aggVars, fcall, pages, app, mount, stack, screens, issued, batches>>

\* A refresh of a list screen starts: its one fetch is issued. A screen has at
\* most one refresh in flight from each origin (its on_mount, its timer, the
\* binding r).
StartRefresh(k, origin) ==
    /\ batches < MaxBatches /\ origin \notin screens[k].inflight
    /\ batches' = batches + 1
    /\ issued' = issued \cup {CommandOf(SourceOf(k))}
    /\ screens' = [screens EXCEPT ![k].mounted = TRUE, ![k].inflight = @ \cup {origin}]

\* The bindings n and p, which the application handles once its on_mount has
\* ended: push the installed screen; its first push mounts it (NodeScreen.on_mount,
\* PartitionScreen.on_mount up to the await). The two list screens share no
\* state, and a behaviour mounts one of them.
push_screen(k) ==
    /\ Running /\ mount.pc \notin {"none", "gather"} /\ ~Contains(stack, k)
    /\ Len(stack) < MaxDepth
    /\ \A other \in ListScreens \ {k} : ~screens[other].mounted
    /\ stack' = Append(stack, k)
    /\ IF screens[k].mounted THEN UNCHANGED <<screens, issued, batches>>
       ELSE StartRefresh(k, "on_mount")
    /\ UNCHANGED <<aggVars, fcall, pages, app, escaped, tables, mount, cycle, footer>>

\* A back action that returns to the home screen from any depth.
pop_to_home ==
    /\ Running /\ Len(stack) > 1
    /\ stack' = <<"home">>
    /\ pages' = IF Top \in DetailScreens /\ pages.detail.pc # "fetching"
                THEN [pages EXCEPT !.detail = NoDetail] ELSE pages
    /\ UNCHANGED <<aggVars, fcall, app, escaped, tables, mount, cycle, footer, screens,
                   issued, batches>>

\* The binding b of a screen on top of the home screen. A detail screen is not
\* installed: popped, it is removed, and with it what its Static showed; one
\* whose fetch is in flight is taken up by update_details_resume.
pop_screen ==
    /\ Running /\ Len(stack) > 1
    /\ stack' = SubSeq(stack, 1, Len(stack) - 1)
    /\ pages' = IF Top \in DetailScreens /\ pages.detail.pc # "fetching"
                THEN [pages EXCEPT !.detail = NoDetail] ELSE pages
    /\ UNCHANGED <<aggVars, fcall, app, escaped, tables, mount, cycle, footer, screens,
                   issued, batches>>

\* The list screen's timer fires (update_nodes, update_partitions).
list_timer(k) ==
    /\ Running /\ screens[k].mounted
    /\ StartRefresh(k, "timer")
    /\ UNCHANGED <<aggVars, fcall, pages, app, escaped, tables, mount, cycle, footer, stack>>

\* The binding r (action_refresh_nodes, action_refresh_partitions).
action_refresh(k) ==
    /\ Running /\ Top = k /\ screens[k].mounted
    /\ StartRefresh(k, "action")
    /\ UNCHANGED <<aggVars, fcall, pages, app, escaped, tables, mount, cycle, footer, stack>>

\* The fetch of a list screen's refresh completes and the refresh runs to its
\* end; the screen's on_mount then hides the search input.
list_refresh_resume(k, origin, env) ==
    /\ Running /\ origin \in screens[k].inflight
    /\ LET r == IF k = "nodes" THEN update_nodes(tables, screens[k], env)
                ELSE update_partitions(tables, screens[k], env)
       IN  /\ tables' = r.tables
           /\ escaped' = Escape(IF k = "nodes" THEN "update_nodes" ELSE "update_partitions",
                                r.exc)
           /\ screens' = [screens EXCEPT
                  ![k].list = r.list,
                  ![k].inflight = @ \ {origin},
                  ![k].fetched = get_slurm_data(CommandOf(SourceOf(k)), env).value.tag,
                  ![k].display = IF origin = "on_mount" /\ r.exc = "" THEN FALSE ELSE @]
    /\ UNCHANGED <<aggVars, fcall, pages, app, mount, cycle, footer, stack, issued, batches>>

\* The binding / (action_show_search).
action_show_search(k) ==
    /\ Running /\ Top = k /\ ~screens[k].display
    /\ screens' = [screens EXCEPT ![k].display = TRUE]
    /\ UNCHANGED <<aggVars, fcall, pages, app, escaped, tables, mount, cycle, footer, stack,
                   issued, batches>>

\* An on_input_changed that runs the screen's command again before it filters.
on_input_changed_fetching(k, text) ==
    /\ Running /\ Top = k /\ screens[k].display /\ text # screens[k].value
    /\ batches < MaxBatches
    /\ batches' = batches + 1
    /\ issued' = issued \cup {CommandOf(SourceOf(k))}
    /\ screens' = [screens EXCEPT ![k].value = text]
    /\ tables' = IF k = "nodes" THEN filter_nodes(tables, screens[k].list, text)
                 ELSE filter_partitions(tables, screens[k].list, text)
    /\ UNCHANGED <<aggVars, fcall, pages, app, escaped, mount, cycle, footer, stack>>

\* The user edits the shown search input (on_input_changed).
on_input_changed(k, text) ==
    /\ Running /\ Top = k /\ screens[k].display /\ text # screens[k].value
    /\ screens' = [screens EXCEPT ![k].value = text]
    /\ tables' = IF k = "nodes" THEN filter_nodes(tables, screens[k].list, text)
                 ELSE filter_partitions(tables, screens[k].list, text)
    /\ UNCHANGED <<aggVars, fcall, pages, app, escaped, mount, cycle, footer, stack, issued, batches>>

\* The binding escape (action_hide_search): a shown input is emptied, which
\* filters with the empty text when it held one, and hidden.
action_hide_search(k) ==
    /\ Running /\ Top = k /\ screens[k].display
    /\ screens' = [screens EXCEPT ![k].value = "", ![k].display = FALSE]
    /\ tables' = IF screens[k].value = "" THEN tables
                 ELSE IF k = "nodes" THEN filter_nodes(tables, screens[k].list, "")
                 ELSE filter_partitions(tables, screens[k].list, "")
    /\ UNCHANGED <<aggVars, fcall, pages, app, escaped, mount, cycle, footer, stack, issued, batches>>

\* The bindings a, h and c: push the screen of that name. The first push of
\* 'config' mounts ConfigScreen, whose on_mount fetches the configuration.
push_named(name) ==
    /\ Running /\ mount.pc \notin {"none", "gather"}
    /\ ~Contains(stack, name) /\ Len(stack) < MaxDepth
    /\ stack' = Append(stack, name)
    /\ IF name = "config" /\ pages.config = "none"
       THEN /\ batches < MaxBatches
            /\ batches' = batches + 1
            /\ issued' = issued \cup {ConfigCommand}
            /\ pages' = [pages EXCEPT !.config = "fetching"]
       ELSE UNCHANGED <<batches, issued, pages>>
    /\ UNCHANGED <<aggVars, fcall, app, escaped, tables, mount, cycle, footer, screens>>

\* ConfigScreen.on_mount after the await: the Static shows the text or the
\* failure message.
config_resume(env) ==
    /\ Running /\ pages.config = "fetching"
    /\ LET config_data == get_slurm_text_data(ConfigCommand, env).value
       IN  pages' = [pages EXCEPT !.config = IF HasData(config_data) THEN "shown" ELSE "failed"]
    /\ UNCHANGED <<aggVars, fcall, app, escaped, tables, mount, cycle, footer, stack, screens,
                   issued, batches>>

\* A row selection that takes the name from the cached list, not from the table.
row_selected_cached(k, cursor_row) ==
    /\ Running /\ Top = k /\ cursor_row \in DOMAIN tables[TableOfScreen(k)].rows
    /\ Len(stack) < MaxDepth /\ pages.detail.pc = "none" /\ batches < MaxBatches
    /\ LET name == screens[k].list.rows[cursor_row][1]
       IN  /\ pages' = [pages EXCEPT !.detail =
                            [kind |-> DetailOf(k), name |-> name, pc |-> "fetching"]]
           /\ issued' = issued \cup {DetailCommand(DetailOf(k), name)}
    /\ stack' = Append(stack, DetailOf(k))
    /\ batches' = batches + 1
    /\ UNCHANGED <<aggVars, fcall, app, escaped, tables, mount, cycle, footer, screens>>

\* on_data_table_row_selected of a list screen: a detail screen for the name in
\* the first cell of the selected row is pushed; its on_mount starts its fetch.
row_selected(k, cursor_row) ==
    /\ Running /\ Top = k /\ cursor_row \in DOMAIN tables[TableOfScreen(k)].rows
    /\ Len(stack) < MaxDepth /\ pages.detail.pc = "none" /\ batches < MaxBatches
    /\ LET name == tables[TableOfScreen(k)].rows[cursor_row][1]
       IN  /\ pages' = [pages EXCEPT !.detail =
                            [kind |-> DetailOf(k), name |-> name, pc |-> "fetching"]]
           /\ issued' = issued \cup {DetailCommand(DetailOf(k), name)}
    /\ stack' = Append(stack, DetailOf(k))
    /\ batches' = batches + 1
    /\ UNCHANGED <<aggVars, fcall, app, escaped, tables, mount, cycle, footer, screens>>

\* update_node_details / update_partition_details after the await, the screen
\* still on the stack: the Static shows the document or the failure message.
update_details_resume(env) ==
    /\ Running /\ pages.detail.pc = "fetching" /\ Contains(stack, pages.detail.kind)
    /\ LET data == get_slurm_data(DetailCommand(pages.detail.kind, pages.detail.name), env).value
       IN  pages' = [pages EXCEPT !.detail.pc = IF HasData(data) THEN "shown" ELSE "failed"]
    /\ UNCHANGED <<aggVars, fcall, app, escaped, tables, mount, cycle, footer, stack, screens,
                   issued, batches>>

\* The same after the screen was popped and removed: query_one on the removed
\* screen either finds its Static still or raises NoMatches, as the toolkit has
\* or has not finished the removal.
update_details_orphan(found) ==
    /\ Running /\ pages.detail.pc = "fetching" /\ ~Contains(stack, pages.detail.kind)
    /\ pages' = [pages EXCEPT !.detail = NoDetail]
    /\ escaped' = IF found THEN escaped ELSE Escape("update_details", "NoMatches")
    /\ UNCHANGED <<aggVars, fcall, app, tables, mount, cycle, footer, stack, screens, issued,
                   batches>>

Init == payload = None /\ agg = NoCall /\ fcall = NoCall /\ InitTui
Next ==
    \/ on_mount_start
    \/ on_mount_resume
    \/ update_data_start
    \/ update_data_resume
    \/ \E k \in ListScreens : push_screen(k)
    \/ pop_screen
    \/ \E k \in ListScreens : list_timer(k)
    \/ \E k \in ListScreens : action_refresh(k)
    \/ \E k \in ListScreens : \E origin \in screens[k].inflight :
          \E env \in Runs(SourceOf(k)) : list_refresh_resume(k, origin, env)
    \/ \E k \in ListScreens : action_show_search(k)
    \/ \E k \in ListScreens : \E text \in {SearchText(k), ""} : on_input_changed(k, text)
    \/ \E k \in ListScreens : action_hide_search(k)
Spec == Init /\ [][Next]_vars

\* ------------------------------------------- the fetcher, one call at a time
call_get_slurm_data(command, env) ==
    /\ fcall = NoCall
    /\ fcall' = [fn |-> "get_slurm_data", command |-> command, env |-> env,
                 ret |-> get_slurm_data(command, env)]
    /\ UNCHANGED <<aggVars, tuiVars>>

call_get_slurm_text_data(command, env) ==
    /\ fcall = NoCall
    /\ fcall' = [fn |-> "get_slurm_text_data", command |-> command, env |-> env,
                 ret |-> get_slurm_text_data(command, env)]
    /\ UNCHANGED <<aggVars, tuiVars>>

\* The caller takes the returned value; the next call can start.
fetch_returned ==
    /\ fcall # NoCall /\ ~Raised(fcall.ret)
    /\ fcall' = NoCall
    /\ UNCHANGED <<aggVars, tuiVars>>

InitFetch == payload = None /\ agg = NoCall /\ fcall = NoCall /\ InitTui
NextFetch ==
    \/ \E command \in Commands, env \in Environments : call_get_slurm_data(command, env)
    \/ \E command \in Commands, env \in Environments : call_get_slurm_text_data(command, env)
    \/ fetch_returned
SpecFetch == InitFetch /\ [][NextFetch]_vars

\* ------------------------------- the aggregation functions, one call at a time
ExpectedKey(fn) ==
    CASE fn \in {"process_partition_summary", "process_partition_list"} -> "sinfo"
      [] fn \in {"process_node_summary", "process_node_list"} -> "nodes"
      [] OTHER -> "jobs"

AddJob(j) ==
    /\ HasKey(payload, "jobs") /\ Len(payload.d.jobs) < MaxJobs
    /\ payload' = Dict([jobs |-> Append(payload.d.jobs, j)])
    /\ agg' = NoCall /\ UNCHANGED <<fcall, tuiVars>>

AddPartitionRecord(r) ==
    /\ HasKey(payload, "sinfo") /\ Len(payload.d.sinfo) < MaxRecords
    /\ payload' = Dict([sinfo |-> Append(payload.d.sinfo, r)])
    /\ agg' = NoCall /\ UNCHANGED <<fcall, tuiVars>>

AddNode(n) ==
    /\ HasKey(payload, "nodes") /\ Len(payload.d.nodes) < MaxNodes
    /\ \A i \in DOMAIN payload.d.nodes : payload.d.nodes[i].name # n.name
    /\ payload' = Dict([nodes |-> Append(payload.d.nodes, n)])
    /\ agg' = NoCall /\ UNCHANGED <<fcall, tuiVars>>

Called(fn, ret) == agg' = [fn |-> fn, ret |-> ret] /\ UNCHANGED <<payload, fcall, tuiVars>>

call_process_partition_summary ==
    \E order \in PartitionSummaryOrders(payload) :
        Called("process_partition_summary", process_partition_summary(payload, order))
call_process_partition_list ==
    Called("process_partition_list", process_partition_list(payload))
call_process_node_summary ==
    Called("process_node_summary", process_node_summary(payload))
call_process_node_list ==
    Called("process_node_list", process_node_list(payload))
call_process_job_summaries ==
    \E o \in JobSummaryOrders(payload) :
        Called("process_job_summaries", process_job_summaries(payload, o))
call_process_pending_job_waiting_times_summary ==
    Called("process_pending_job_waiting_times_summary",
           process_pending_job_waiting_times_summary(payload))

InitAgg ==
    /\ payload \in {None, EmptyDict, Dict([errors |-> <<>>]), Dict([jobs |-> <<>>]),
                    Dict([sinfo |-> <<>>]), Dict([nodes |-> <<>>])}
    /\ agg = NoCall /\ fcall = NoCall /\ InitTui
NextAgg ==
    \/ \E j \in Jobs : AddJob(j)
    \/ \E r \in PartitionRecords : AddPartitionRecord(r)
    \/ \E n \in Nodes : AddNode(n)
    \/ call_process_partition_summary
    \/ call_process_partition_list
    \/ call_process_node_summary
    \/ call_process_node_list
    \/ call_process_job_summaries
    \/ call_process_pending_job_waiting_times_summary
SpecAgg == InitAgg /\ [][NextAgg]_vars

\* ------------------------------------------- the formatter called on its own
\* The arguments: None, and the numbers num / den around the unit boundaries
\* (a second, a minute, an hour, a day), one of them negative.
FieldValues(unit) == {0, 1, unit - 1}
Arguments ==
    {None, Number(-1, 1), Number(-1, 2)} \cup
    {Number(d * 86400 + h * 3600 + m * 60 + s, den) :
        d \in 0..MaxDays, h \in FieldValues(24), m \in FieldValues(60),
        s \in FieldValues(60), den \in 1..MaxDen}

call_format_seconds_to_human_readable ==
    Called("format_seconds_to_human_readable",
           Return(format_seconds_to_human_readable(payload)))

InitFormat == payload \in Arguments /\ agg = NoCall /\ fcall = NoCall /\ InitTui
NextFormat == call_format_seconds_to_human_readable
SpecFormat == InitFormat /\ [][NextFormat]_vars

\* ------------------------------------------------ navigation between screens
\* The application with all its screens; the home view is refreshed by on_mount.
NextNav ==
    \/ on_mount_start
    \/ on_mount_resume
    \/ \E k \in ListScreens : push_screen(k)
    \/ \E name \in NamedScreens : push_named(name)
    \/ pop_screen
    \/ \E env \in ConfigRuns : config_resume(env)
    \/ \E k \in ListScreens : \E r \in 1..MaxNodes : row_selected(k, r)
    \/ \E env \in DetailRuns : update_details_resume(env)
    \/ \E found \in BOOLEAN : update_details_orphan(found)
    \/ \E k \in ListScreens : list_timer(k)
    \/ \E k \in ListScreens : \E origin \in screens[k].inflight :
          \E env \in Runs(SourceOf(k)) : list_refresh_resume(k, origin, env)
    \/ \E k \in ListScreens : action_show_search(k)
    \/ \E k \in ListScreens : on_input_changed(k, SearchText(k))
SpecNav == Init /\ [][NextNav]_vars

\* ------------------------------------------------ the gather, task by task
\* asyncio.gather makes a task of each of the three fetches at once; a task that
\* has not returned yet holds no result.
Pending == [tag |-> "pending"]
Gathering == [src \in Sources |-> Pending]
AllSettled(all_data) == \A src \in Sources : all_data[src] # Pending

\* on_mount up to the await of get_all_slurm_data.
on_mount_gather ==
    /\ app = "starting"
    /\ app' = "running"
    /\ mount' = [pc |-> "gather", all_data |-> Gathering]
    /\ issued' = issued \cup {CommandOf(src) : src \in Sources}
    /\ batches' = batches + 1
    /\ UNCHANGED <<aggVars, fcall, pages, escaped, tables, cycle, footer, stack, screens>>

\* One fetch of on_mount's gather returns.
on_mount_task_done(src, env) ==
    /\ Running /\ mount.pc = "gather" /\ mount.all_data[src] = Pending
    /\ mount' = [mount EXCEPT !.all_data[src] = get_slurm_data(CommandOf(src), env).value]
    /\ UNCHANGED <<aggVars, fcall, pages, app, escaped, tables, cycle, footer, stack, screens,
                   issued, batches>>

\* A gather that returns with the first result and takes the others as None.
on_mount_first_wins ==
    /\ Running /\ mount.pc = "gather"
    /\ \E src \in Sources : mount.all_data[src] # Pending
    /\ LET all_data == [src \in Sources |->
                           IF mount.all_data[src] = Pending THEN None ELSE mount.all_data[src]]
       IN  \E orders \in HomeOrders(all_data) :
             LET left == on_mount(tables, footer, all_data, orders)
             IN  /\ tables' = left.tables
                 /\ escaped' = Escape("on_mount", left.exc)
                 /\ mount' = [pc |-> IF left.exc = "" THEN "update_data" ELSE "raised",
                              all_data |-> all_data]
    /\ UNCHANGED <<aggVars, fcall, pages, app, cycle, footer, stack, screens, issued, batches>>

\* The gather of on_mount returns, all three fetches having returned: on_mount
\* resumes with the snapshot and runs to its end.
on_mount_join ==
    /\ Running /\ mount.pc = "gather" /\ AllSettled(mount.all_data)
    /\ \E orders \in HomeOrders(mount.all_data) :
         LET left == on_mount(tables, footer, mount.all_data, orders)
         IN  /\ tables' = left.tables
             /\ escaped' = Escape("on_mount", left.exc)
             /\ mount' = [mount EXCEPT !.pc = IF left.exc = "" THEN "update_data" ELSE "raised"]
    /\ UNCHANGED <<aggVars, fcall, pages, app, cycle, footer, stack, screens, issued, batches>>

\* The home timer fires: update_data up to the await of get_all_slurm_data.
update_data_gather ==
    /\ Running /\ mount.pc # "none" /\ cycle.pc # "gather" /\ batches < MaxBatches
    /\ cycle' = [n |-> batches + 1, pc |-> "gather", all_data |-> Gathering]
    /\ issued' = issued \cup {CommandOf(src) : src \in Sources}
    /\ batches' = batches + 1
    /\ UNCHANGED <<aggVars, fcall, pages, app, escaped, tables, mount, footer, stack, screens>>

\* One fetch of update_data's gather returns.
update_data_task_done(src, env) ==
    /\ Running /\ cycle.pc = "gather" /\ cycle.all_data[src] = Pending
    /\ cycle' = [cycle EXCEPT !.all_data[src] = get_slurm_data(CommandOf(src), env).value]
    /\ UNCHANGED <<aggVars, fcall, pages, app, escaped, tables, mount, footer, stack, screens,
                   issued, batches>>

\* The gather of update_data returns: update_data resumes and runs to its end.
update_data_join ==
    /\ Running /\ cycle.pc = "gather" /\ AllSettled(cycle.all_data)
    /\ \E orders \in HomeOrders(cycle.all_data) :
         LET left == update_data(tables, footer, cycle.all_data, orders, cycle.n)
         IN  /\ tables' = left.tables
             /\ footer' = left.footer
             /\ escaped' = Escape("update_data", left.exc)
             /\ cycle' = [cycle EXCEPT !.pc = IF left.exc = "" THEN "done" ELSE "raised"]
    /\ UNCHANGED <<aggVars, fcall, pages, app, mount, stack, screens, issued, batches>>

NextGather ==
    \/ on_mount_gather
    \/ \E src \in Sources : \E env \in Runs(src) : on_mount_task_done(src, env)
    \/ on_mount_join
    \/ update_data_gather
    \/ \E src \in Sources : \E env \in Runs(src) : update_data_task_done(src, env)
    \/ update_data_join
SpecGather == Init /\ [][NextGather]_vars
\* Every command terminates, so each task of a gather returns, and the event
\* loop resumes the handler whose gather has returned.
Fairness ==
    /\ WF_vars(\E src \in Sources : \E env \in Runs(src) : on_mount_task_done(src, env))
    /\ WF_vars(on_mount_join)
    /\ WF_vars(\E src \in Sources : \E env \in Runs(src) : update_data_task_done(src, env))
    /\ WF_vars(update_data_join)
FairGather == SpecGather /\ Fairness

\* ------------------------------------------------------------------ claims

\* What one run of a command is, told from the environment alone.
CommandFailed(env) == env.spawn # "ok" \/ env.returncode # 0
StdoutText(env) == env.stdout.body
ValidJson(env) == env.stdout.utf8 /\ StdoutText(env).kind = "json"
DecodedDocument(env) == StdoutText(env).doc

\* C1: get_slurm_data and get_slurm_text_data never raise; they return None for a
\* non-zero exit, a missing executable, any other exception and (JSON path) output
\* that is not valid JSON, and for exit 0 the decoded document (resp. the stripped text).
C1_FetchNeverRaises ==
    fcall # NoCall =>
        /\ ~Raised(fcall.ret)
        /\ CommandFailed(fcall.env) => IsNone(fcall.ret.value)
        /\ fcall.fn = "get_slurm_data" /\ ~CommandFailed(fcall.env) =>
              IF ValidJson(fcall.env) THEN fcall.ret.value = DecodedDocument(fcall.env)
              ELSE IsNone(fcall.ret.value)
        /\ fcall.fn = "get_slurm_text_data" /\ ~CommandFailed(fcall.env) =>
              IF fcall.env.stdout.utf8 THEN fcall.ret.value = Str(StdoutText(fcall.env))
              ELSE IsNone(fcall.ret.value)

\* A command that exits non-zero although its stdout holds a valid document.
C1_Witness ==
    /\ fcall # NoCall /\ fcall.fn = "get_slurm_data"
    /\ fcall.env.spawn = "ok" /\ fcall.env.returncode = 1
    /\ fcall.env.stdout = Bytes(TRUE, TRUE, Json(Dict([jobs |-> <<>>])))
    /\ IsNone(fcall.ret.value)

\* The source a home table is derived from.
TableSource(id) ==
    CASE id = "partition_summary_table" -> "sinfo"
      [] id = "node_summary_table" -> "scontrol"
      [] OTHER -> "squeue"
\* A home refresh cycle has run (to its end or to an exception) on a snapshot
\* in which the fetch of some source returned None.
DegradedCycle ==
    cycle.pc \in {"done", "raised"} /\ \E src \in Sources : IsNone(cycle.all_data[src])
\* The step in which update_data resumes from its gather.
UpdateDataRuns == cycle.pc = "gather" /\ cycle'.pc # "gather"

\* C2: a home refresh cycle in which some fetch returned None does not raise, and
\* every table derived from a source that was fetched is replaced in that cycle.
C2_DegradedCycleCompletes ==
    DegradedCycle =>
        /\ cycle.pc = "done"
        /\ \A id \in HomeTables :
              ~IsNone(cycle.all_data[TableSource(id)]) => tables[id].cycle = cycle.n

\* C3: in a home refresh cycle, every table derived from a source whose fetch
\* failed keeps exactly the rows it had before the cycle.
C3_FailedSourceKeepsRows ==
    [][UpdateDataRuns =>
          \A id \in HomeTables :
              IsNone(cycle'.all_data[TableSource(id)]) =>
                  tables'[id].rows = tables[id].rows]_vars

\* C4: no state shows some home tables with rows of one refresh cycle and others
\* with rows of another cycle.
C4_OneSnapshot ==
    \A a, b \in HomeTables :
        tables[a].cycle # 0 /\ tables[b].cycle # 0 => tables[a].cycle = tables[b].cycle

\* C5: every row of every table has exactly as many cells as the table has
\* registered columns.
C5_RowsMatchColumns ==
    \A id \in TableIds : \A r \in DOMAIN tables[id].rows :
        Len(tables[id].rows[r]) = Len(tables[id].columns)

\* C6: a table's columns, once set, never change: refreshes and filters replace
\* rows only.
C6_ColumnsSetOnce ==
    [][\A id \in TableIds :
          tables[id].columns # <<>> => tables'[id].columns = tables[id].columns]_vars

\* The node list, whose columns were set by its first refresh, was filtered by a
\* search text afterwards, and the partition summary was replaced by a refresh
\* cycle after on_mount had set its columns.
C6_Witness ==
    /\ tables["node_list_table"].columns = NodeListColumns
    /\ screens["nodes"].value = "node10"
    /\ Len(tables["node_list_table"].rows) = 1
    /\ tables["partition_summary_table"].columns = PartitionSummaryColumns
    /\ tables["partition_summary_table"].cycle > 0

\* C7: rows are never added to a table whose columns have not been registered.
C7_NoRowsWithoutColumns ==
    \A id \in TableIds : tables[id].rows # <<>> => tables[id].columns # <<>>

\* The number of jobs of the queue whose grouping key is k.
JobsOfKey(jobs, key, k) == Cardinality({i \in DOMAIN jobs : jobs[i][key] = k})
TotalJobsIsJobCount(df, jobs, key) ==
    \A r \in DOMAIN df.rows : df.rows[r][2] = JobsOfKey(jobs, key, df.rows[r][1])

\* C8: in both job summaries, Total Jobs of a grouping key equals the number of
\* jobs with that key, each job counted once whatever the length of its job_state.
C8_TotalJobsCountsEachJobOnce ==
    agg.fn = "process_job_summaries" /\ ~NoJobs(payload) =>
        /\ TotalJobsIsJobCount(agg.ret.value[1], payload.d.jobs, "account")
        /\ TotalJobsIsJobCount(agg.ret.value[2], payload.d.jobs, "user_name")

\* C9: for None, a payload without 'jobs' or an empty job list, process_job_summaries
\* does not raise and returns two tables of zero rows with the columns
\* account (resp. user_name), Total Jobs, RUNNING, PENDING, COMPLETED.
C9_EmptyJobSummaries ==
    agg.fn = "process_job_summaries"
        /\ (IsNone(payload) \/ "jobs" \notin DOMAIN payload.d \/ payload.d.jobs = <<>>) =>
        /\ ~Raised(agg.ret)
        /\ agg.ret.value[1] =
              DataFrame(<<"account", "Total Jobs", "RUNNING", "PENDING", "COMPLETED">>, <<>>)
        /\ agg.ret.value[2] =
              DataFrame(<<"user_name", "Total Jobs", "RUNNING", "PENDING", "COMPLETED">>, <<>>)

\* process_job_summaries was called on a document that has no 'jobs' key.
C9_Witness ==
    /\ agg.fn = "process_job_summaries" /\ payload = Dict([errors |-> <<>>])
    /\ agg.ret.value[1].rows = <<>>

\* The result a function gives when there is no data: None, or its empty table.
EmptyResult(fn, v) ==
    CASE fn = "process_job_summaries" -> v[1].rows = <<>> /\ v[2].rows = <<>>
      [] fn = "process_pending_job_waiting_times_summary" -> v = ZeroWaitingTimes
      [] OTHER -> IsNone(v)

\* C10: every aggregation function, given None, an empty document or a document
\* without its expected top-level key, returns None or an empty result and never raises.
C10_AggregationTotal ==
    agg.fn # "" /\ (~Truthy(payload) \/ ~HasKey(payload, ExpectedKey(agg.fn))) =>
        ~Raised(agg.ret) /\ EmptyResult(agg.fn, agg.ret.value)

\* The column lists the functions declare: the explicit schema of the job
\* summaries, the select lists of the others.
DeclaredColumns(fn) ==
    CASE fn = "process_partition_summary" -> <<PartitionSummaryColumns>>
      [] fn = "process_partition_list" -> <<PartitionListColumns>>
      [] fn = "process_node_list" -> <<NodeListColumns>>
      [] fn = "process_job_summaries" ->
            <<EmptyJobSummary("account").columns, EmptyJobSummary("user_name").columns>>
      [] OTHER -> <<"Metric", "Value">>
                  \* process_node_summary, process_pending_job_waiting_times_summary
\* The column lists of the tables a call returned; <<>> when it returned no table.
ReturnedColumns(fn, v) ==
    IF fn = "process_job_summaries" THEN <<v[1].columns, v[2].columns>>
    ELSE IF IsNone(v) THEN <<>>
    ELSE <<v.columns>>

\* C11: every aggregation function returns, for every input (empty, None, lacking
\* its key, any set of job states), a table with the same declared column list.
C11_DeclaredColumnsAlways ==
    agg.fn # "" =>
        /\ ~Raised(agg.ret)
        /\ ReturnedColumns(agg.fn, agg.ret.value) = DeclaredColumns(agg.fn)

\* The sum of a raw field over the records of payload list df named name.
RawSum(df, name, part, field) ==
    LET same == SelectSeq(df, LAMBDA rec : rec.partition.name = name)
    IN  SumSeq([i \in DOMAIN same |-> same[i][part][field]])
\* rows holds one row per distinct partition name of df, each with the six sums.
OneRowPerPartition(df, rows) ==
    /\ Len(rows) = Cardinality(PartitionNames(df))
    /\ \A n \in PartitionNames(df) : \E r \in DOMAIN rows : rows[r][1] = n
    /\ \A r \in DOMAIN rows :
          rows[r] = <<rows[r][1],
                      RawSum(df, rows[r][1], "nodes", "total"),
                      RawSum(df, rows[r][1], "nodes", "idle"),
                      RawSum(df, rows[r][1], "nodes", "allocated"),
                      RawSum(df, rows[r][1], "cpus", "total"),
                      RawSum(df, rows[r][1], "cpus", "idle"),
                      RawSum(df, rows[r][1], "cpus", "allocated")>>

\* C12: for every sinfo payload, process_partition_summary returns exactly one row
\* per distinct partition name, whose Total/Idle/Allocated Nodes and Total/Free/
\* Allocated CPUs are the sums of the raw fields over the records of that name.
C12_PartitionSummarySums ==
    agg.fn = "process_partition_summary" /\ HasKey(payload, "sinfo") =>
        /\ ~Raised(agg.ret)
        /\ OneRowPerPartition(payload.d.sinfo, agg.ret.value.rows)

\* A job that counts for the waiting times: PENDING is among its states and both
\* of its times are set.
Qualifies(j) ==
    /\ "PENDING" \in Range(j.job_state)
    /\ j.eligible_time.number # 0 /\ j.start_time.number # 0
Waits(jobs) ==
    LET q == SelectSeq(jobs, Qualifies)
    IN  [i \in DOMAIN q |-> q[i].start_time.number - q[i].eligible_time.number]
Below(w, x) == Cardinality({i \in DOMAIN w : w[i] < x})
Above(w, x) == Cardinality({i \in DOMAIN w : w[i] > x})
\* The statistics of the waits w in whole seconds (w is not empty, no wait negative).
MaxSeconds(w) == CHOOSE x \in Range(w) : Above(w, x) = 0
MedianSeconds(w) ==
    LET n == Len(w)
        lo == CHOOSE x \in Range(w) : Below(w, x) <= (n - 1) \div 2 /\ Above(w, x) <= n \div 2
        hi == CHOOSE x \in Range(w) : Below(w, x) <= n \div 2 /\ Above(w, x) <= (n - 1) \div 2
    IN  (lo + hi) \div 2
MeanSeconds(w) == SumSeq(w) \div Len(w)
\* x whole seconds written as days, hours, minutes and seconds.
HumanReadable(x) ==
    ToString(x \div 86400) \o "d " \o ToString((x \div 3600) % 24) \o "h "
        \o ToString((x \div 60) % 60) \o "m " \o ToString(x % 60) \o "s"

\* C13: process_pending_job_waiting_times_summary gives max, median and mean of
\* start_time - eligible_time over exactly the jobs that are PENDING with both
\* times non-zero, each truncated to whole seconds and written as d/h/m/s.
C13_WaitingTimeStatistics ==
    agg.fn = "process_pending_job_waiting_times_summary" /\ HasKey(payload, "jobs")
        /\ Waits(payload.d.jobs) # <<>> =>
        LET w == Waits(payload.d.jobs)
        IN  /\ ~Raised(agg.ret)
            /\ agg.ret.value =
                  DataFrame(<<"Metric", "Value">>,
                            << <<"Max Waiting Time", HumanReadable(MaxSeconds(w))>>,
                               <<"Median Waiting Time", HumanReadable(MedianSeconds(w))>>,
                               <<"Mean Waiting Time", HumanReadable(MeanSeconds(w))>> >>)

\* The waits 400 s and 1400 s: max 23m 20s, median and mean 15m 0s.
C13_Witness ==
    /\ agg.fn = "process_pending_job_waiting_times_summary"
    /\ payload = Dict([jobs |-> <<Job("acct1", "user1", <<"PENDING">>, 100, 500),
                                  Job("acct2", "user2", <<"PENDING">>, 100, 1500)>>])
    /\ agg.ret.value.rows = << <<"Max Waiting Time", "0d 0h 23m 20s">>,
                               <<"Median Waiting Time", "0d 0h 15m 0s">>,
                               <<"Mean Waiting Time", "0d 0h 15m 0s">> >>

\* C14: when no job qualifies (payload None, no 'jobs' key, empty job list, no
\* PENDING job with both times non-zero), process_pending_job_waiting_times_summary
\* returns three rows (Max, Median, Mean Waiting Time) of two columns (Metric,
\* Value) whose values are all "0d 0h 0m 0s".
C14_NoQualifyingJob ==
    agg.fn = "process_pending_job_waiting_times_summary"
        /\ (~HasKey(payload, "jobs") \/ Waits(payload.d.jobs) = <<>>) =>
        /\ ~Raised(agg.ret)
        /\ agg.ret.value =
              DataFrame(<<"Metric", "Value">>,
                        << <<"Max Waiting Time", "0d 0h 0m 0s">>,
                           <<"Median Waiting Time", "0d 0h 0m 0s">>,
                           <<"Mean Waiting Time", "0d 0h 0m 0s">> >>)

\* The queue holds jobs and none qualifies: one runs, one is PENDING with its
\* times unset.
C14_Witness ==
    /\ agg.fn = "process_pending_job_waiting_times_summary"
    /\ payload = Dict([jobs |-> <<Job("acct1", "user2", <<"RUNNING", "COMPLETING">>, 100, 90161),
                                  Job("acct2", "user2", <<"PENDING">>, 0, 0)>>])
    /\ agg.ret.value.rows[1] = <<"Max Waiting Time", "0d 0h 0m 0s">>

\* text is "{d}d {h}h {m}m {s}s" for the one split of x whole seconds into days,
\* hours below 24, minutes below 60 and seconds below 60.
SplitsInto(x, text) ==
    \E d \in 0..(MaxDays + 1), h \in 0..23 :
        LET rest == x - d * 86400 - h * 3600
        IN  /\ rest \in 0..3599
            /\ \E m \in 0..59 :
                  /\ rest - m * 60 \in 0..59
                  /\ text = ToString(d) \o "d " \o ToString(h) \o "h " \o ToString(m)
                               \o "m " \o ToString(rest - m * 60) \o "s"
\* The values the test suite lists.
Listed(seconds, text) ==
    /\ seconds = Number(0, 1) => text = "0d 0h 0m 0s"
    /\ seconds = Number(60, 1) => text = "0d 0h 1m 0s"
    /\ seconds = Number(3600, 1) => text = "0d 1h 0m 0s"
    /\ seconds = Number(86400, 1) => text = "1d 0h 0m 0s"
    /\ seconds = Number(90061, 1) => text = "1d 1h 1m 1s"

\* C15: format_seconds_to_human_readable(None) is "N/A"; for a non-negative number
\* x it is "{d}d {h}h {m}m {s}s" with d*86400 + h*3600 + m*60 + s = x truncated to
\* an integer, 0 <= h < 24, 0 <= m < 60, 0 <= s < 60.
C15_FormatSeconds ==
    agg.fn = "format_seconds_to_human_readable" =>
        /\ ~Raised(agg.ret)
        /\ IF IsNone(payload) THEN agg.ret.value = "N/A"
           ELSE payload.num >= 0 =>
                   /\ SplitsInto(payload.num \div payload.den, agg.ret.value)
                   /\ Listed(payload, agg.ret.value)

\* A duration that is not whole: 90061 / 2 s is 12h 30m 30.5s.
C15_Witness ==
    /\ agg.fn = "format_seconds_to_human_readable"
    /\ payload = Number(90061, 2)
    /\ agg.ret.value = "0d 12h 30m 30s"

\* The value the returned node summary gives for a metric.
MetricValue(df, metric) ==
    LET r == CHOOSE i \in DOMAIN df.rows : df.rows[i][1] = metric IN df.rows[r][2]
\* The nodes of a payload list that hold at least one of the given states.
NodesInState(nodes, states) == {i \in DOMAIN nodes : Range(nodes[i].state) \cap states # {}}

\* C16: in the node summary, Broken Nodes is the number of nodes whose state list
\* holds at least one of the ten broken states, each node counted once, and
\* Nodes in Reservation is the number of nodes whose state list holds RESERVATION.
C16_BrokenAndReserved ==
    agg.fn = "process_node_summary" /\ ~Raised(agg.ret) /\ ~IsNone(agg.ret.value) =>
        /\ MetricValue(agg.ret.value, "Broken Nodes") =
              Cardinality(NodesInState(payload.d.nodes,
                  {"DRAINED", "DRAINING", "DRAIN", "DOWN", "FAIL", "NO_RESPOND",
                   "POWER_DOWN", "POWER_UP", "RESUME", "UNKNOWN"}))
        /\ MetricValue(agg.ret.value, "Nodes in Reservation") =
              Cardinality(NodesInState(payload.d.nodes, {"RESERVATION"}))

\* A node that is both DRAINED and DOWN counts as one broken node, beside a
\* node in a reservation.
C16_Witness ==
    /\ agg.fn = "process_node_summary" /\ HasKey(payload, "nodes")
    /\ Len(payload.d.nodes) = 2
    /\ payload.d.nodes[1].state = <<"DRAINED", "DOWN">>
    /\ payload.d.nodes[2].state = <<"RESERVATION", "MIXED">>
    /\ MetricValue(agg.ret.value, "Broken Nodes") = 1
    /\ MetricValue(agg.ret.value, "Nodes in Reservation") = 1

\* C17: in the node summary, Mixed Nodes is the number of nodes with
\* 0 < alloc_cpus < cpus, whatever their state lists: nodes with no allocated cpu
\* and nodes with all cpus allocated are not counted.
C17_MixedNodes ==
    agg.fn = "process_node_summary" /\ ~Raised(agg.ret) /\ ~IsNone(agg.ret.value) =>
        LET nodes == payload.d.nodes
            idle == {i \in DOMAIN nodes : nodes[i].alloc_cpus = 0}
            full == {i \in DOMAIN nodes : nodes[i].alloc_cpus = nodes[i].cpus}
        IN  MetricValue(agg.ret.value, "Mixed Nodes") = Len(nodes) - Cardinality(idle \cup full)

\* A node in state IDLE with one of four cpus allocated is counted; a node in
\* state MIXED with all its cpus allocated is not.
C17_Witness ==
    /\ agg.fn = "process_node_summary" /\ HasKey(payload, "nodes")
    /\ Len(payload.d.nodes) = 2
    /\ payload.d.nodes[1].name = "node4" /\ payload.d.nodes[2].name = "node5"
    /\ MetricValue(agg.ret.value, "Mixed Nodes") = 1

\* The step in which a refresh of list screen k runs to its end.
RefreshEnds(k) ==
    /\ screens'[k].inflight # screens[k].inflight
    /\ screens'[k].inflight \subseteq screens[k].inflight

\* C18: on the list screens the cache holds the list of the last successful
\* fetch: a refresh whose fetch returned None leaves the cached list as it was.
C18_FailedRefreshKeepsCache ==
    [][\A k \in ListScreens :
          RefreshEnds(k) /\ screens'[k].fetched = "None" =>
              screens'[k].list = screens[k].list]_vars

\* A step of list screen k that changes its search text or shows or hides its
\* search input, no refresh starting or ending in it.
SearchStep(k) ==
    /\ screens'[k].inflight = screens[k].inflight
    /\ screens'[k].value # screens[k].value \/ screens'[k].display # screens[k].display

\* C19: changing the search text of a list screen, and showing or hiding the
\* search input, issues no external command and leaves the cached list unchanged;
\* the table's rows afterwards are rows of the cached list (or the rows it had).
C19_SearchIsLocal ==
    [][\A k \in ListScreens :
          SearchStep(k) =>
              /\ issued' = issued /\ batches' = batches
              /\ screens'[k].list = screens[k].list
              /\ \A id \in TableIds \ {TableOfScreen(k)} : tables'[id] = tables[id]
              /\ \/ tables'[TableOfScreen(k)] = tables[TableOfScreen(k)]
                 \/ /\ ~IsNone(screens[k].list)
                    /\ Range(tables'[TableOfScreen(k)].rows)
                          \subseteq Range(screens[k].list.rows)]_vars

\* The partition list was fetched once and then narrowed by the search text "eb"
\* to its one matching row, with the search input still shown.
C19_Witness ==
    /\ screens["partitions"].value = "eb" /\ screens["partitions"].display
    /\ ~IsNone(screens["partitions"].list)
    /\ Len(screens["partitions"].list.rows) = 2
    /\ Len(tables["partition_list_table"].rows) = 1
    /\ issued = {CommandOf("sinfo"), CommandOf("squeue"), CommandOf("scontrol")}

\* term occurs in name: some stretch of name's characters is term.
OccursIn(term, name) ==
    \E i \in 1..(Len(Chars(name)) + 1), j \in 0..Len(Chars(name)) :
        SubSeq(Chars(name), i, j) = Chars(term)
\* The rows of the cached list whose cell under name_column contains term, in
\* the order of the list.
MatchingRows(list, name_column, term) ==
    LET c == CHOOSE i \in DOMAIN list.columns : list.columns[i] = name_column
    IN  SelectSeq(list.rows, LAMBDA row : OccursIn(term, row[c]))
NameColumn(k) == IF k = "nodes" THEN "Node Name" ELSE "Partition Name"

\* C20: with a cached list present, the table of a list screen holds exactly the
\* cached rows whose Node Name (Partition Name) contains the search text as a
\* literal substring, in cached order; all cached rows for the empty text.
C20_TableIsFilteredCache ==
    \A k \in ListScreens :
        ~IsNone(screens[k].list) =>
            /\ tables[TableOfScreen(k)].rows =
                  MatchingRows(screens[k].list, NameColumn(k), screens[k].value)
            /\ screens[k].value = "" => tables[TableOfScreen(k)].rows = screens[k].list.rows

\* The node list of two nodes, node1 before node10, filtered with the text
\* "node10", which node1 does not contain: the table holds the second cached row.
C20_Witness ==
    /\ ~IsNone(screens["nodes"].list)
    /\ screens["nodes"].value = "node10"
    /\ Len(screens["nodes"].list.rows) = 2
    /\ screens["nodes"].list.rows[1][1] = "node1"
    /\ tables["node_list_table"].rows = <<screens["nodes"].list.rows[2]>>

\* The program named by the command is not installed: create_subprocess_shell
\* starts the shell, which cannot find the program, reports it on stderr and
\* exits with status 127.
MissingExecutable(env) ==
    env.spawn = "ok" /\ env.returncode = 127 /\ env.stderr.body = Text("command not found")
\* The output of a command that exited 0 is not the text of a JSON document.
MalformedJson(env) ==
    env.spawn = "ok" /\ env.returncode = 0 /\ env.stdout.utf8 /\ StdoutText(env).kind # "json"
\* A fetch that did not get its data from the command.
FailedFetch(fn, env) ==
    \/ CommandFailed(env)
    \/ ~env.stdout.utf8
    \/ fn = "get_slurm_data" /\ MalformedJson(env)

\* C21: every failed fetch emits exactly one diagnostic of the class of its
\* failure before it returns None (non-zero exit: 'Error running' with the
\* captured stderr; missing executable: 'Command not found' with the program's
\* name; malformed JSON: 'Could not decode JSON'); a successful fetch emits none.
C21_OneDiagnosticPerFailure ==
    fcall # NoCall =>
        LET env == fcall.env
            log == fcall.ret.log
        IN  /\ Len(log) = IF FailedFetch(fcall.fn, env) THEN 1 ELSE 0
            /\ FailedFetch(fcall.fn, env) => IsNone(fcall.ret.value)
            /\ MissingExecutable(env) => log = << <<"not found", Head(fcall.command)>> >>
            /\ env.spawn = "ok" /\ env.returncode # 0 /\ ~MissingExecutable(env) =>
                  log = << <<"error running", fcall.command, env.stderr.body>> >>
            /\ fcall.fn = "get_slurm_data" /\ MalformedJson(env) =>
                  log = << <<"could not decode JSON", fcall.command>> >>

\* C22: the footer's 'Last updated' timestamp is set on every successful home
\* refresh cycle, when the cycle completes, to the time of that moment (here the
\* number of the cycle).
C22_FooterStampedEachCycle ==
    [][UpdateDataRuns /\ (\A src \in Sources : ~IsNone(cycle'.all_data[src])) =>
          footer' = cycle'.n]_vars

\* The refresh callback of a view: the handler an exception would escape from.
RefreshCallback(view) ==
    CASE view = "home" -> "update_data"
      [] view = "nodes" -> "update_nodes"
      [] OTHER -> "update_partitions"
NoneEscaped(view) == \A e \in escaped : e[1] # RefreshCallback(view)

\* C23: fetch failures never terminate the process: after a refresh cycle of the
\* home view or of a list screen in which a fetch returned None, the application
\* is running, no exception has escaped the refresh callback and the next timer
\* tick starts a new cycle.
C23_FetchFailureNotFatal ==
    /\ DegradedCycle =>
          /\ Running /\ NoneEscaped("home")
          /\ batches < MaxBatches => ENABLED update_data_start
    /\ \A k \in ListScreens :
          screens[k].mounted /\ screens[k].inflight = {} /\ screens[k].fetched = "None" =>
              /\ Running /\ NoneEscaped(k)
              /\ batches < MaxBatches => ENABLED list_timer(k)

\* The names in the first cell of the rows a list table shows.
ShownNames(id) == {tables[id].rows[r][1] : r \in DOMAIN tables[id].rows}
\* The commands that read the scheduler's state.
ReadOnlyCommands ==
    { <<"sinfo", "--json">>, <<"squeue", "--json">>,
      <<"scontrol", "show", "nodes", "--json">>, <<"scontrol", "show", "config">> }
    \cup {<<"scontrol", "show", "node", n, "--json">> : n \in ShownNames("node_list_table")}
    \cup {<<"scontrol", "show", "partition", n, "--json">> :
             n \in ShownNames("partition_list_table")}

DetailRefreshStarts ==
    /\ NextNav
    /\ pages.detail.pc \in {"shown", "failed"}
    /\ pages'.detail = [pages.detail EXCEPT !.pc = "fetching"]
\* The one command a drill-down view needs.
CommandOfView(view) ==
    IF view \in ListScreens THEN CommandOf(SourceOf(view))
    ELSE DetailCommand(view, pages.detail.name)
\* The view a step starts a fetch for, from the screen whose fetch it starts.
StartsFetchFor(view) ==
    IF view \in ListScreens THEN screens'[view].inflight # screens[view].inflight
                                 /\ screens[view].inflight \subseteq screens'[view].inflight
    ELSE pages'.detail.kind = view /\ pages'.detail.pc = "fetching" /\ pages.detail.pc # "fetching"

\* C25: each drill-down view (node list, partition list, node detail, partition
\* detail) runs its own periodic refresh: once its fetch has ended the timer can
\* start the next one, and a refresh it starts issues the one command of the view.
C25_OwnRefreshLoop ==
    /\ [](\A k \in ListScreens :
            screens[k].mounted /\ "timer" \notin screens[k].inflight /\ batches < MaxBatches =>
                ENABLED list_timer(k))
    /\ [](pages.detail.pc \in {"shown", "failed"} => ENABLED DetailRefreshStarts)
    /\ [][\A view \in ListScreens \cup DetailScreens :
            StartsFetchFor(view) => issued' \ issued \subseteq {CommandOfView(view)'}]_vars

\* The screens that can be pushed on the home screen.
PushedScreens == NamedScreens \cup ListScreens \cup DetailScreens
Front(s) == SubSeq(s, 1, Len(s) - 1)

HomeGather(h) == IF h = "on_mount" THEN mount ELSE cycle
GatherOpen(g) == g.pc = "gather"

\* C27: in a refresh of the home view the three fetches are started together,
\* before any of them has returned, and the refresh computes nothing and writes
\* no table before all three have returned, in whatever order they return and
\* whether they succeed or fail.
C27_JoinAllBarrier ==
    [][/\ \A h \in {"on_mount", "update_data"} :
            /\ ~GatherOpen(HomeGather(h)) /\ GatherOpen(HomeGather(h)') =>
                  /\ HomeGather(h)'.all_data = Gathering
                  /\ \A src \in Sources : CommandOf(src) \in issued'
            /\ GatherOpen(HomeGather(h)) /\ ~AllSettled(HomeGather(h).all_data) =>
                  GatherOpen(HomeGather(h)')
       /\ tables' # tables \/ footer' # footer \/ escaped' # escaped =>
            \E h \in {"on_mount", "update_data"} :
                /\ GatherOpen(HomeGather(h)) /\ AllSettled(HomeGather(h).all_data)
                /\ ~GatherOpen(HomeGather(h)')]_vars
\* The second refresh is waiting for sinfo, scontrol having returned first and
\* squeue having failed, and has written nothing.
C27_Witness ==
    /\ cycle.n = 2 /\ cycle.pc = "gather"
    /\ cycle.all_data.sinfo = Pending
    /\ IsNone(cycle.all_data.squeue)
    /\ cycle.all_data.scontrol \notin {Pending, None}
    /\ \A id \in HomeTables : tables[id].cycle # 2

\* The states and grouping keys that occur in a job list, and the number of jobs
\* of key k whose job_state list contains s.
StatesIn(jobs) == UNION {{jobs[i].job_state[n] : n \in DOMAIN jobs[i].job_state} : i \in DOMAIN jobs}
KeysIn(jobs, key) == {jobs[i][key] : i \in DOMAIN jobs}
JobsInState(jobs, key, k, s) ==
    Cardinality({i \in DOMAIN jobs : jobs[i][key] = k /\ Contains(jobs[i].job_state, s)})
PivotCounts(df, jobs, key) ==
    \A k \in KeysIn(jobs, key) : \A s \in StatesIn(jobs) :
        \E r \in DOMAIN df.rows : \E c \in DOMAIN df.columns :
            /\ df.rows[r][1] = k /\ df.columns[c] = s
            /\ df.rows[r][c] = JobsInState(jobs, key, k, s)

\* C28: in the account and the user job summary, for every grouping key k and
\* every state s of the input, column s of row k holds the number of jobs of k
\* whose job_state list contains s, which is 0 (not null) when there is none.
C28_PivotCounts ==
    agg.fn = "process_job_summaries" /\ ~NoJobs(payload) =>
        /\ PivotCounts(agg.ret.value[1], payload.d.jobs, "account")
        /\ PivotCounts(agg.ret.value[2], payload.d.jobs, "user_name")
\* acct1 has a running job only and acct2 a pending one only: each row holds a
\* 1 and a 0.
C28_Witness ==
    /\ agg.fn = "process_job_summaries"
    /\ payload = Dict([jobs |-> <<Job("acct1", "user1", <<"RUNNING">>, 100, 100),
                                  Job("acct2", "user2", <<"PENDING">>, 100, 1500)>>])
    /\ \E r \in 1..2 : \E c \in 3..4 :
          /\ agg.ret.value[1].rows[r][1] = "acct2"
          /\ agg.ret.value[1].columns[c] = "RUNNING"
          /\ agg.ret.value[1].rows[r][c] = 0

\* The order of a table's rows: their first cells; a numeric column read down
\* the rows.
RowOrder(df) == [r \in DOMAIN df.rows |-> df.rows[r][1]]
Descending(df, c) == \A i, j \in DOMAIN df.rows : i < j => df.rows[i][c] >= df.rows[j][c]
AscendingNames(df) ==
    \A i, j \in DOMAIN df.rows : i < j => NameRank(df.rows[i][1]) <= NameRank(df.rows[j][1])
ReturnedTable(ret) == ~Raised(ret) /\ ~IsNone(ret.value)
\* What the claim says of the order within each rollup.
OrderedAsDeclared ==
    /\ agg.fn = "process_partition_summary" /\ ReturnedTable(agg.ret) =>
          Descending(agg.ret.value, 2)
    /\ agg.fn = "process_job_summaries" =>
          \A t \in 1..2 :
              /\ Descending(agg.ret.value[t], 2)
              /\ SubSeq(agg.ret.value[t].columns, 1, 2) =
                    <<IF t = 1 THEN "account" ELSE "user_name", "Total Jobs">>
    /\ agg.fn \in {"process_node_list", "process_partition_list"} /\ ReturnedTable(agg.ret) =>
          AscendingNames(agg.ret.value)
\* Any second evaluation on the same payload gives the rows in the same order.
SameOrderAgain ==
    /\ agg.fn = "process_partition_summary" /\ ReturnedTable(agg.ret) =>
          \A order \in PartitionSummaryOrders(payload) :
              RowOrder(process_partition_summary(payload, order).value) = RowOrder(agg.ret.value)
    /\ agg.fn = "process_job_summaries" =>
          \A o \in JobSummaryOrders(payload) : \A t \in 1..2 :
              RowOrder(process_job_summaries(payload, o).value[t]) = RowOrder(agg.ret.value[t])
    /\ agg.fn = "process_node_list" /\ ReturnedTable(agg.ret) =>
          RowOrder(process_node_list(payload).value) = RowOrder(agg.ret.value)
    /\ agg.fn = "process_partition_list" /\ ReturnedTable(agg.ret) =>
          RowOrder(process_partition_list(payload).value) = RowOrder(agg.ret.value)

\* C29: the row order of every rollup is deterministic: two evaluations on the
\* same payload give the rows in the same order, rows of equal sort key
\* included; the partition summary is in descending Total Nodes, the job
\* summaries in descending Total Jobs with the grouping column and Total Jobs
\* first, the node and partition lists in ascending name.
C29_DeterministicRowOrder == OrderedAsDeclared /\ SameOrderAgain

\* A refresh of the home view is under way; it has run to its end, every table
\* written or skipped.
CycleFetching == cycle.pc = "gather"
CycleCompleted == cycle.pc = "done"

\* C30: provided every command terminates, every refresh of the home view that
\* has started completes (its fetches settle and its tables are written or
\* skipped), after which the view is idle and the next tick starts a new refresh.
C30_RefreshCompletes ==
    /\ CycleFetching ~> CycleCompleted
    /\ [](cycle.n > 0 /\ ~CycleFetching /\ batches < MaxBatches => ENABLED update_data_gather)

\* A drill-down screen holds the user or a fetch: a screen other than the home
\* view is on top of the stack, or a fetch of a list screen is pending.
DrillDownBusy == Top # "home" \/ \E k \in ListScreens : screens[k].inflight # {}

\* C31: a slow fetch of a drill-down screen never blocks the home view: while
\* such a fetch is pending or a screen other than the home view is on top, a
\* home timer tick still starts a refresh, and a refresh that resumes then
\* completes without error.
C31_HomeCadenceNotBlocked ==
    /\ [](Running /\ mount.pc # "none" /\ DrillDownBusy /\ cycle.pc # "gather"
             /\ batches < MaxBatches => ENABLED update_data_start)
    /\ [][DrillDownBusy /\ UpdateDataRuns => cycle'.pc = "done" /\ escaped' = escaped]_vars

\* The step in which the result of a fetch arrives for a screen that was popped
\* while the fetch was in flight.
LateListResult(k) == RefreshEnds(k) /\ ~Contains(stack, k)
LateConfigResult ==
    pages.config = "fetching" /\ pages'.config # "fetching" /\ ~Contains(stack, "config")
LateDetailResult ==
    pages.detail.pc = "fetching" /\ pages'.detail.pc # "fetching"
        /\ ~Contains(stack, pages.detail.kind)

\* C32: the result of a fetch that arrives after its screen was popped is
\* discarded silently: it modifies no widget of any screen (no table, no cached
\* list, no Static) and raises no error.
C32_LateResultDiscarded ==
    [][/\ \A k \in ListScreens :
            LateListResult(k) =>
                tables' = tables /\ screens'[k].list = screens[k].list /\ escaped' = escaped
       /\ LateConfigResult => pages'.config \notin {"shown", "failed"} /\ escaped' = escaped
       /\ LateDetailResult => escaped' = escaped]_vars

\* The records of a payload that process_partition_list groups.
HasRecords(sinfo_data) == HasKey(sinfo_data, "sinfo") /\ sinfo_data.d.sinfo # <<>>
\* One row per distinct partition name, in ascending name, holding the six
\* sums of the partition's records.
RowPerPartition(df, records) ==
    /\ {df.rows[r][1] : r \in DOMAIN df.rows} = PartitionNames(records)
    /\ Len(df.rows) = Cardinality(PartitionNames(records))
    /\ \A i, j \in DOMAIN df.rows : i < j => NameRank(df.rows[i][1]) < NameRank(df.rows[j][1])
    /\ \A r \in DOMAIN df.rows :
          SubSeq(df.rows[r], 1, 7) = partition_row(records, df.rows[r][1])
ColumnsOf(df) == {df.columns[c] : c \in DOMAIN df.columns}

\* C33: process_partition_list returns one row per distinct partition name with
\* the six summed node and cpu columns of the rollup, in ascending Partition
\* Name; when the records carry availability or state it returns, without
\* raising, the columns Availability and State as well.
C33_PartitionList ==
    agg.fn = "process_partition_list" /\ HasRecords(payload) =>
        /\ ~Raised(agg.ret)
        /\ RowPerPartition(agg.ret.value, payload.d.sinfo)
        /\ HasColumn(payload.d.sinfo, "availability") =>
              "Availability" \in ColumnsOf(agg.ret.value)
        /\ HasColumn(payload.d.sinfo, "state") => "State" \in ColumnsOf(agg.ret.value)

\* The row of the node list that renders node n.
RendersNode(row, n) ==
    /\ row[1] = n.name
    /\ row[2] = JoinStr(n.state, ", ") /\ row[8] = JoinStr(n.partitions, ", ")
    /\ row[5] = n.real_memory /\ row[6] = n.alloc_memory
    /\ row[7] = row[5] - row[6]
OneRowPerNode(df, nodes) ==
    /\ Len(df.rows) = Len(nodes)
    /\ \A i \in DOMAIN nodes : \E r \in DOMAIN df.rows : RendersNode(df.rows[r], nodes[i])
    /\ \A i, j \in DOMAIN df.rows : i < j => NameRank(df.rows[i][1]) < NameRank(df.rows[j][1])

\* C34: process_node_list returns exactly one row per node of the payload, in
\* ascending Node Name, with Free Memory (MB) = Total Memory (MB) - Allocated
\* Memory (MB) and the state and partition lists joined with ", " in their order.
C34_NodeList ==
    agg.fn = "process_node_list" /\ HasKey(payload, "nodes") =>
        ~Raised(agg.ret) /\ OneRowPerNode(agg.ret.value, payload.d.nodes)

\* The keys on_mount and update_data read from the snapshot, the names tui.py
\* imports from the slurm module, and the functions that module defines.
KeysRead == {"sinfo", "squeue", "scontrol", "current_time"}
ImportedNames ==
    {"get_all_slurm_data", "get_slurm_data", "process_partition_summary",
     "process_node_summary", "process_job_summaries", "process_node_list",
     "process_partition_list", "fetch_config", "process_pending_job_wait_time_stats"}
SlurmDefines ==
    {"get_slurm_data", "get_slurm_text_data", "get_all_slurm_data", "fetch_config",
     "process_partition_summary", "process_job_summaries", "process_node_summary",
     "process_node_list", "process_partition_list", "format_seconds_to_human_readable",
     "process_pending_job_waiting_times_summary"}
\* A handler of the home view has resumed from its gather.
Resumed(h) == HomeGather(h).pc \notin {"none", "gather"}

\* C35: every key the home view reads from the snapshot of get_all_slurm_data
\* is a key of that snapshot and every function it imports is one the slurm
\* module defines, so that startup and each refresh run to completion.
C35_SnapshotKeysAndImports ==
    \A h \in {"on_mount", "update_data"} :
        Resumed(h) =>
            /\ KeysRead \subseteq DOMAIN HomeGather(h).all_data
            /\ ImportedNames \subseteq SlurmDefines
            /\ HomeGather(h).pc # "raised"

\* A list screen's first refresh is the one its on_mount starts (tui.py:124):
\* the timer is set on the line before and the binding r needs the mounted
\* screen, so every other refresh of the screen started after it. While that
\* first refresh is in flight, a filled cache was filled by a newer refresh.
NewerCycleShown(k) ==
    /\ "on_mount" \in screens[k].inflight
    /\ ~IsNone(screens[k].list)

\* The oldest refresh of screen k ends in this step.
OldestCycleEnds(k) ==
    /\ "on_mount" \in screens[k].inflight
    /\ "on_mount" \notin screens'[k].inflight

\* C36: when refresh cycles of one view overlap, the rows and the cache are
\* those of the cycle that started last: a cycle that started earlier and ends
\* later leaves the newer cycle's cache and rows as they are.
C36_LastStartedWins ==
    [][\A k \in ListScreens :
          NewerCycleShown(k) /\ OldestCycleEnds(k) =>
              /\ screens'[k].list = screens[k].list
              /\ tables'[TableOfScreen(k)].rows = tables[TableOfScreen(k)].rows]_vars

\* No refresh of list screen k is in flight: its pending events are handled.
Settled(k) == screens[k].mounted /\ screens[k].inflight = {}
\* The table of k holds the cached rows that match the current search text.
ShowsFilteredCache(k) ==
    tables[TableOfScreen(k)].rows =
        MatchingRows(screens[k].list, NameColumn(k), screens[k].value)
\* The step hides the search input of k (action_hide_search, or the last line
\* of the screen's on_mount).
HidesSearch(k) == screens[k].display /\ ~screens'[k].display
\* The escape binding acts on k: the shown input of the screen on top is hidden
\* while no refresh ends.
HideSearchActs(k) ==
    HidesSearch(k) /\ Top = k /\ screens'[k].inflight = screens[k].inflight

\* C37: on a list screen with a cache and no refresh in flight the table shows
\* the cached list filtered by the current search text; the hide-search action
\* empties the text and the table then shows the whole cached list; and a
\* hidden search input holds the empty text.
C37_FilterFollowsSearchText ==
    /\ [](\A k \in ListScreens :
            /\ Settled(k) /\ ~IsNone(screens[k].list) => ShowsFilteredCache(k)
            /\ ~screens[k].display => screens[k].value = "")
    /\ [][\A k \in ListScreens :
            HideSearchActs(k) /\ ~IsNone(screens[k].list) =>
                /\ screens'[k].value = ""
                /\ tables'[TableOfScreen(k)].rows = screens'[k].list.rows]_vars

\* The refresh cycle that ends in this step got None from all three fetches.
AllFetchesFailed == \A src \in Sources : IsNone(cycle'.all_data[src])

\* C38: update_data stamps the footer at the end of every home refresh cycle
\* that runs to its end, whatever the fetches returned; a cycle whose three
\* fetches all returned None runs to its end too and advances 'Last updated'.
C38_FooterAdvancesOnEveryOutcome ==
    [][UpdateDataRuns =>
          /\ cycle'.pc = "done" => footer' = cycle'.n
          /\ AllFetchesFailed => cycle'.pc = "done" /\ footer' = cycle'.n]_vars

====
